---- MODULE Spec2Model ----
(***************************************************************************)
(* Alerting core of the agri-drone analytics dashboard:                    *)
(*   grid mapping -> grid stats -> signal extraction -> rule evaluation    *)
(*   -> conflict resolution, and the stateful alert debouncer.             *)
(*                                                                         *)
(* Numbers.  JavaScript numbers with decimals are kept as integers in      *)
(* thousandths (25 % is 25000, confidence 0.7 is 700); M(x) converts a     *)
(* whole number.  potentialLoss and the counts are whole numbers.          *)
(* infectionGrowthRate is a product of two thousandths and is kept in      *)
(* millionths.  GPS coordinates are whole micro-degrees.                   *)
(*                                                                         *)
(* Objects.  A JavaScript object is a record; a property the object lacks  *)
(* is a field outside its DOMAIN (reading it gives undefined).  null is    *)
(* the record Null.                                                        *)
(***************************************************************************)
EXTENDS Integers, Sequences, FiniteSets, TLC

VARIABLES
    \* AlertDebouncer
    recentAlerts,   \* this.recentAlerts: Map key -> time of last allowed emission
    windowMs,       \* this.windowMs
    now,            \* Date.now()
    calls,          \* observed shouldShowAlert calls since construction / clear()
    \* one pass of the pure pipeline
    pc,             \* which function is applied next
    entry,          \* the function the pass started with
    detections,     \* argument of mapDetectionsToGrid
    grid,           \* result of mapDetectionsToGrid
    gridStats,      \* result of calculateGridStats / argument of extractSignals
    economicImpact, \* argument of extractSignals
    fusionResults,  \* argument of extractSignals
    sensorData,     \* argument of extractSignals
    signals,        \* result of extractSignals / argument of evaluateAlerts
    alerts,         \* result of evaluateAlerts / argument of resolveConflicts
    resolved,       \* result of resolveConflicts
    \* calls of the grid, zone and path functions by a caller that keeps the grids
    grids,          \* the grid objects that exist, in order of creation
    call,           \* the last call: its function and its argument
    result,         \* what the last call returned
    \* the alert panel under the dashboard
    feed,           \* useDetections: the detections, newest first
    memoFusion,     \* the panel's memoized fusionResults
    panelProps,     \* gridStats and economicImpact as the dashboard passes them
    panelAlerts,    \* the panel's alerts state
    pending,        \* the effects and renders that are due
    dashboard,      \* the dashboard's alerts and recommendations state
    cycle,          \* the last evaluation cycle: its inputs and what it produced
    emissions       \* per alert key: its last emission and whether its rule
                    \* condition held in every cycle since

debouncerVars == <<recentAlerts, windowMs, now, calls>>
pipelineVars  == <<pc, entry, detections, grid, gridStats, economicImpact,
                   fusionResults, sensorData, signals, alerts, resolved>>
fieldVars     == <<grids, call, result>>
panelVars     == <<feed, memoFusion, panelProps, panelAlerts, pending, dashboard,
                   cycle, emissions>>
vars          == <<recentAlerts, windowMs, now, calls, pc, entry, detections,
                   grid, gridStats, economicImpact, fusionResults, sensorData,
                   signals, alerts, resolved, grids, call, result, feed,
                   memoFusion, panelProps, panelAlerts, pending, dashboard, cycle,
                   emissions>>

-----------------------------------------------------------------------------
(* Bounds *)

MaxWindow == 3      \* windows 1..MaxWindow are tried
MaxTime   == 7      \* the clock runs from 1 to MaxTime
MaxCalls  == 4      \* shouldShowAlert calls observed per debouncer lifetime

-----------------------------------------------------------------------------
(* JavaScript values *)

Null == [null |-> TRUE]

M(x) == x * 1000

Has(obj, f) == obj # Null /\ f \in DOMAIN obj

\* obj.f || dflt on a numeric property (undefined and 0 are falsy)
NumOr(obj, f, dflt) == IF Has(obj, f) /\ obj[f] # 0 THEN obj[f] ELSE dflt

\* obj.f || dflt on a string property (undefined and '' are falsy)
StrOr(obj, f, dflt) == IF Has(obj, f) /\ obj[f] # "" THEN obj[f] ELSE dflt

\* String.prototype.includes
Includes(s, kw) ==
    \E i \in 1..(Len(s) - Len(kw) + 1) : SubSeq(s, i, i + Len(kw) - 1) = kw

UpperToLower ==
    [c \in {"A","B","C","D","E","F","G","H","I","J","K","L","M",
            "N","O","P","Q","R","S","T","U","V","W","X","Y","Z"} |->
        CASE c = "A" -> "a" [] c = "B" -> "b" [] c = "C" -> "c" [] c = "D" -> "d"
          [] c = "E" -> "e" [] c = "F" -> "f" [] c = "G" -> "g" [] c = "H" -> "h"
          [] c = "I" -> "i" [] c = "J" -> "j" [] c = "K" -> "k" [] c = "L" -> "l"
          [] c = "M" -> "m" [] c = "N" -> "n" [] c = "O" -> "o" [] c = "P" -> "p"
          [] c = "Q" -> "q" [] c = "R" -> "r" [] c = "S" -> "s" [] c = "T" -> "t"
          [] c = "U" -> "u" [] c = "V" -> "v" [] c = "W" -> "w" [] c = "X" -> "x"
          [] c = "Y" -> "y" [] c = "Z" -> "z"]

\* String.prototype.toLowerCase
RECURSIVE ToLowerCase(_)
ToLowerCase(s) ==
    IF Len(s) = 0 THEN ""
    ELSE LET c == SubSeq(s, 1, 1)
         IN  (IF c \in DOMAIN UpperToLower THEN UpperToLower[c] ELSE c)
                \o ToLowerCase(SubSeq(s, 2, Len(s)))

-----------------------------------------------------------------------------
(* Field grid *)

\* GRID_CONFIG and FIELD_CONFIG, angles in micro-degrees
GridRows      == 10
GridCols      == 10
FieldLatDelta == 2000
FieldLngDelta == 2000
FieldCenter   == [lat |-> 28613900, lng |-> 77209000]

(* Cell and field bounds are binary64 numbers that are not rounded to six  *)
(* decimals, so they keep the rounding error of the arithmetic that made   *)
(* them.  A bound is kept as  micro-degrees * Sub + ulps : ulps tells how  *)
(* many binary64 steps the value lies above the binary64 nearest to that   *)
(* decimal (one step is 2^-48 degree for a latitude, 2^-46 for a           *)
(* longitude).  A number parsed from six decimals has ulps = 0.            *)
Sub == 8

\* a number with six decimals (a GPS coordinate, a cell centre) as a bound
Exact(micro) == micro * Sub

\* Number.prototype.toFixed(6) followed by parseFloat, on a bound
ToFixed6(bound) == (bound + Sub \div 2) \div Sub

\* binary64 value of  fieldNorth - (row * cellLatSize)  for row 0..9
NorthUlps == <<1, 1, 1, 1, 0, 0, 0, 1, 1, 1>>
\* binary64 value of  north - cellLatSize  for row 0..9
SouthUlps == <<1, 1, 1, 1, 0, 0, 1, 1, 1, 1>>
\* binary64 value of  fieldWest + (col * cellLngSize)  for col 0..9
WestUlps  == <<0, 0, 0, 0, 0, 0, 0, 0, 0, 0>>
\* binary64 value of  west + cellLngSize  for col 0..9
EastUlps  == <<0, 1, 0, 1, 0, 1, 0, 1, 0, 1>>

\* the cell built by the loop body of createFieldGrid for (row, col)
NewCell(row, col) ==
    LET cellLatSize == FieldLatDelta \div GridRows
        cellLngSize == FieldLngDelta \div GridCols
        fieldNorth  == FieldCenter.lat + FieldLatDelta \div 2
        fieldWest   == FieldCenter.lng - FieldLngDelta \div 2
        north == Exact(fieldNorth - (row * cellLatSize)) + NorthUlps[row + 1]
        south == Exact(fieldNorth - (row * cellLatSize) - cellLatSize)
                    + SouthUlps[row + 1]
        west  == Exact(fieldWest + (col * cellLngSize)) + WestUlps[col + 1]
        east  == Exact(fieldWest + (col * cellLngSize) + cellLngSize)
                    + EastUlps[col + 1]
    IN  [row |-> row, col |-> col,
         id |-> ToString(row) \o "_" \o ToString(col),
         center |-> [lat |-> ToFixed6((north + south) \div 2),
                     lng |-> ToFixed6((west + east) \div 2)],
         bounds |-> [south |-> south, west |-> west, north |-> north, east |-> east],
         detections |-> <<>>,
         infected |-> FALSE]

\* createFieldGrid(): grid.cells[r][c] is the cell of row r - 1, column c - 1
CreateFieldGrid ==
    [cells |-> [r \in 1..GridRows |-> [c \in 1..GridCols |-> NewCell(r - 1, c - 1)]]]

\* getFieldBounds(): the field rectangle, in binary64
GetFieldBounds ==
    [south |-> Exact(FieldCenter.lat - FieldLatDelta \div 2),
     west  |-> Exact(FieldCenter.lng - FieldLngDelta \div 2),
     north |-> Exact(FieldCenter.lat + FieldLatDelta \div 2) + 1,
     east  |-> Exact(FieldCenter.lng + FieldLngDelta \div 2) + 1]

IsPointInCell(point, cell) ==
    /\ Exact(point.lat) >= cell.bounds.south
    /\ Exact(point.lat) <= cell.bounds.north
    /\ Exact(point.lng) >= cell.bounds.west
    /\ Exact(point.lng) <= cell.bounds.east

\* positions <<r, c>> of the cells of a grid
GridPositions(g) ==
    UNION { { <<r, c>> : c \in 1..Len(g.cells[r]) } : r \in 1..Len(g.cells) }

RowMajorBefore(p, q) == p[1] < q[1] \/ (p[1] = q[1] /\ p[2] <= q[2])

\* findCellForPoint: the position of the first cell in row-major order that
\* contains the point, <<0, 0>> for null
FindCellForPoint(point, g) ==
    LET hits == { p \in GridPositions(g) : IsPointInCell(point, g.cells[p[1]][p[2]]) }
    IN  IF hits = {} THEN <<0, 0>>
        ELSE CHOOSE p \in hits : \A q \in hits : RowMajorBefore(p, q)

\* grid.flat()
RECURSIVE FlattenFrom(_, _)
FlattenFrom(r, g) ==
    IF r > Len(g.cells) THEN <<>> ELSE g.cells[r] \o FlattenFrom(r + 1, g)

FlattenGrid(g) == FlattenFrom(1, g)

\* a plausible slip: the id is stored but the cell is not marked infected
AddDetectionNoFlag(g, detection) ==
    IF ~Has(detection, "gps") \/ detection.gps = Null THEN g
    ELSE LET p == FindCellForPoint(detection.gps, g)
         IN  IF p = <<0, 0>> THEN g
             ELSE [g EXCEPT !.cells[p[1]][p[2]] =
                      [@ EXCEPT !.detections = Append(@, detection.id)]]

\* the forEach body of mapDetectionsToGrid for one detection
AddDetection(g, detection) ==
    IF ~Has(detection, "gps") \/ detection.gps = Null THEN g
    ELSE LET p == FindCellForPoint(detection.gps, g)
         IN  IF p = <<0, 0>> THEN g
             ELSE [g EXCEPT !.cells[p[1]][p[2]] =
                      [@ EXCEPT !.detections = Append(@, detection.id),
                                !.infected = TRUE]]

\* a plausible slip: a for loop that leaves at the first detection without GPS
\* where the forEach callback only returns
RECURSIVE AddDetectionsUntilNoGps(_, _, _)
AddDetectionsUntilNoGps(i, dets, g) ==
    IF i > Len(dets) THEN g
    ELSE IF ~Has(dets[i], "gps") \/ dets[i].gps = Null THEN g
    ELSE LET next == AddDetection(g, dets[i])
         IN  IF Len(next.cells) >= 0 THEN AddDetectionsUntilNoGps(i + 1, dets, next)
             ELSE next

\* detections.forEach from detection i on; the grid after detection i is
\* evaluated (the test on its rows is always true) before the loop goes on
RECURSIVE AddDetectionsFrom(_, _, _)
AddDetectionsFrom(i, dets, g) ==
    IF i > Len(dets) THEN g
    ELSE LET next == AddDetection(g, dets[i])
         IN  IF Len(next.cells) >= 0 THEN AddDetectionsFrom(i + 1, dets, next)
             ELSE next

MapDetectionsToGridOf(dets) == AddDetectionsFrom(1, dets, CreateFieldGrid)

\* the number NaN
NaN == [nan |-> TRUE]

\* parseFloat(((count / total) * 100).toFixed(1)) in thousandths; 0 / 0 is NaN,
\* which toFixed prints as "NaN" and parseFloat reads back as NaN
PercentOneDecimal(count, total) ==
    IF total = 0 THEN NaN
    ELSE ((2000 * count + total) \div (2 * total)) * 100

CalculateGridStatsOf(g) ==
    LET allCells      == FlattenGrid(g)
        infectedCells == SelectSeq(allCells, LAMBDA c : c.infected)
        totalCells    == Len(allCells)
        infectedCount == Len(infectedCells)
        healthyCount  == totalCells - infectedCount
    IN  [totalCells |-> totalCells,
         infectedCount |-> infectedCount,
         healthyCount |-> healthyCount,
         infectedPercentage |-> PercentOneDecimal(infectedCount, totalCells),
         healthyPercentage |-> PercentOneDecimal(healthyCount, totalCells),
         chemicalSavings |-> PercentOneDecimal(healthyCount, totalCells)]

\* the outcome of a call that raised an exception
Thrown == [thrown |-> TRUE]

-----------------------------------------------------------------------------
(* Path planner.  Distances are whole centimetres.                         *)

(* calculateDistance between two points of the field, to the nearest       *)
(* centimetre.  The points are at most 0.003 degrees apart, where the      *)
(* haversine formula  R * 2 * atan2(sqrt(a), sqrt(1 - a))  is              *)
(* R * sqrt(dLat^2 + cos(lat1) * cos(lat2) * dLng^2)  and the product of   *)
(* the cosines is cos(28.6139 deg)^2.  With the differences counted in     *)
(* steps of 100 micro-degrees, one step of latitude is                     *)
(* 6371000 * PI / 180 * 0.0001 m = 1111.949 cm, whose square is LatStepSq; *)
(* LngStepSq is LatStepSq * cos(28.6139 deg)^2.                            *)
LatStepSq == 1236431
LngStepSq == 952856

\* floor of the square root, by bisection between lo and hi
RECURSIVE SqrtBetween(_, _, _)
SqrtBetween(n, lo, hi) ==
    IF lo >= hi THEN lo
    ELSE LET mid == (lo + hi + 1) \div 2
         IN  IF mid * mid <= n THEN SqrtBetween(n, mid, hi)
             ELSE SqrtBetween(n, lo, mid - 1)

\* Math.sqrt, rounded to the nearest whole number
Sqrt(n) ==
    LET r == SqrtBetween(n, 0, 46340)
    IN  IF r * r + r < n THEN r + 1 ELSE r

CalculateDistance(p1, p2) ==
    LET deltaLat == (p2.lat - p1.lat) \div 100
        deltaLng == (p2.lng - p1.lng) \div 100
    IN  Sqrt(LatStepSq * deltaLat * deltaLat + LngStepSq * deltaLng * deltaLng)

\* getFieldCenter()
GetFieldCenter == FieldCenter

GetInfectedCells(g) == SelectSeq(FlattenGrid(g), LAMBDA cell : cell.infected)

\* the waypoint pushed for a cell
Waypoint(cell) ==
    [cellId |-> cell.id, position |-> cell.center,
     detectionCount |-> Len(cell.detections)]

\* sequence s without its i-th element (Set.prototype.delete keeps the order
\* of the other elements)
Without(s, i) == SubSeq(s, 1, i - 1) \o SubSeq(s, i + 1, Len(s))

\* a plausible slip: <= keeps the last of several equidistant cells
RECURSIVE NearestFromLastWins(_, _, _, _, _)
NearestFromLastWins(unvisited, i, currentPosition, nearest, shortestDistance) ==
    IF i > Len(unvisited) THEN nearest
    ELSE LET distance == CalculateDistance(currentPosition, unvisited[i].center)
         IN  IF nearest = 0 \/ distance <= shortestDistance
             THEN NearestFromLastWins(unvisited, i + 1, currentPosition, i, distance)
             ELSE NearestFromLastWins(unvisited, i + 1, currentPosition, nearest,
                                      shortestDistance)

\* the for-of loop over the unvisited set, from its i-th element on: the index
\* of the nearest cell; nearest = 0 stands for nearestCell = null with
\* shortestDistance = Infinity
RECURSIVE NearestFrom(_, _, _, _, _)
NearestFrom(unvisited, i, currentPosition, nearest, shortestDistance) ==
    IF i > Len(unvisited) THEN nearest
    ELSE LET distance == CalculateDistance(currentPosition, unvisited[i].center)
         IN  IF nearest = 0 \/ distance < shortestDistance
             THEN NearestFrom(unvisited, i + 1, currentPosition, i, distance)
             ELSE NearestFrom(unvisited, i + 1, currentPosition, nearest,
                              shortestDistance)

\* a plausible slip: the visited cell is never deleted from the set; the loop
\* is cut off when the path is as long as the set
RECURSIVE NearestNeighbourKeepVisited(_, _, _, _)
NearestNeighbourKeepVisited(unvisited, currentPosition, path, totalDistance) ==
    IF Len(path) >= Len(unvisited)
    THEN [path |-> path, totalDistance |-> totalDistance,
          currentPosition |-> currentPosition]
    ELSE LET n    == NearestFrom(unvisited, 1, currentPosition, 0, 0)
             cell == unvisited[n]
         IN  NearestNeighbourKeepVisited(unvisited, cell.center,
                 Append(path, Waypoint(cell)),
                 totalDistance + CalculateDistance(currentPosition, cell.center))

\* the while loop of generateSprayPath
RECURSIVE NearestNeighbour(_, _, _, _)
NearestNeighbour(unvisited, currentPosition, path, totalDistance) ==
    IF Len(unvisited) = 0
    THEN [path |-> path, totalDistance |-> totalDistance,
          currentPosition |-> currentPosition]
    ELSE LET n    == NearestFrom(unvisited, 1, currentPosition, 0, 0)
             cell == unvisited[n]
         IN  NearestNeighbour(Without(unvisited, n), cell.center,
                 Append(path, Waypoint(cell)),
                 totalDistance + CalculateDistance(currentPosition, cell.center))

\* a plausible slip: the visited cell is pushed but not deleted from the set
SprayLoopStepKeepVisited(st) ==
    LET n == NearestFrom(st.unvisited, 1, st.currentPosition, 0, 0)
    IN  IF n = 0 THEN st
        ELSE [unvisited |-> st.unvisited,
              currentPosition |-> st.unvisited[n].center,
              path |-> Append(st.path, Waypoint(st.unvisited[n])),
              totalDistance |-> st.totalDistance
                  + CalculateDistance(st.currentPosition, st.unvisited[n].center)]

\* one iteration of the while loop: the search for the nearest cell, and the
\* visit under if (nearestCell)
SprayLoopStep(st) ==
    LET n == NearestFrom(st.unvisited, 1, st.currentPosition, 0, 0)
    IN  IF n = 0 THEN st
        ELSE [unvisited |-> Without(st.unvisited, n),
              currentPosition |-> st.unvisited[n].center,
              path |-> Append(st.path, Waypoint(st.unvisited[n])),
              totalDistance |-> st.totalDistance
                  + CalculateDistance(st.currentPosition, st.unvisited[n].center)]

\* the loop state before the first iteration
SprayLoopStart(g) ==
    [unvisited |-> GetInfectedCells(g), currentPosition |-> GetFieldCenter,
     path |-> <<>>, totalDistance |-> 0]

\* while (unvisited.size > 0): the loop states at the test of the condition,
\* for at most fuel iterations
RECURSIVE SprayLoopStates(_, _)
SprayLoopStates(st, fuel) ==
    IF Len(st.unvisited) = 0 \/ fuel = 0 THEN <<st>>
    ELSE <<st>> \o SprayLoopStates(SprayLoopStep(st), fuel - 1)

\* parseFloat(totalDistance.toFixed(1)): metres with one decimal
ToFixed1(cm) == ((cm + 5) \div 10) * 10

\* Math.ceil(totalDistance / 5 + count * 3), the distance in centimetres
EstimatedTime(cm, count) == (cm + 499) \div 500 + count * 3

\* a plausible slip: the leg back to the launch point is left out
ClosedTourDistanceNoReturn(loop, startPoint) == loop.totalDistance

\* totalDistance += returnDistance, after the loop
ClosedTourDistance(loop, startPoint) ==
    loop.totalDistance + CalculateDistance(loop.currentPosition, startPoint)

\* the result for a grid without infected cells
NoPath == [waypoints |-> <<>>, totalDistance |-> 0, estimatedTime |-> 0,
           pathExists |-> FALSE]

\* a plausible slip: a single infected cell is treated as nothing to spray
GenerateSprayPathSkipSingle(g) ==
    LET infectedCells == GetInfectedCells(g)
        startPoint    == GetFieldCenter
        loop  == NearestNeighbour(infectedCells, startPoint, <<>>, 0)
        total == ClosedTourDistance(loop, startPoint)
    IN  IF Len(infectedCells) <= 1 THEN NoPath
        ELSE [waypoints |-> loop.path,
              totalDistance |-> ToFixed1(total),
              estimatedTime |-> EstimatedTime(total, Len(loop.path)),
              pathExists |-> TRUE,
              startPoint |-> startPoint,
              endPoint |-> startPoint]

GenerateSprayPathOf(g) ==
    LET infectedCells == GetInfectedCells(g)
        startPoint    == GetFieldCenter
        loop  == NearestNeighbour(infectedCells, startPoint, <<>>, 0)
        total == ClosedTourDistance(loop, startPoint)
    IN  IF Len(infectedCells) = 0 THEN NoPath
        ELSE [waypoints |-> loop.path,
              totalDistance |-> ToFixed1(total),
              estimatedTime |-> EstimatedTime(total, Len(loop.path)),
              pathExists |-> TRUE,
              startPoint |-> startPoint,
              endPoint |-> startPoint]

\* the distance between consecutive waypoints, from the i-th on
RECURSIVE LegsFrom(_, _)
LegsFrom(wps, i) ==
    IF i >= Len(wps) THEN 0
    ELSE CalculateDistance(wps[i].position, wps[i + 1].position)
            + LegsFrom(wps, i + 1)

\* a plausible slip: the sweep forgets the leg back to the launch point
SweepDistanceOneWay(wps, startPoint) ==
    CalculateDistance(startPoint, wps[1].position) + LegsFrom(wps, 1)

\* the three distance sums of generateSweepPath
SweepDistance(wps, startPoint) ==
    CalculateDistance(startPoint, wps[1].position)
        + LegsFrom(wps, 1)
        + CalculateDistance(wps[Len(wps)].position, startPoint)

\* the nested sweep loops: a waypoint for every infected cell, row by row
SweepWaypoints(g) ==
    LET infectedCells == SelectSeq(FlattenGrid(g), LAMBDA cell : cell.infected)
    IN  [i \in 1..Len(infectedCells) |-> Waypoint(infectedCells[i])]

GenerateSweepPathOf(g) ==
    LET infectedCells == SweepWaypoints(g)
        startPoint    == GetFieldCenter
        total         == SweepDistance(infectedCells, startPoint)
    IN  IF Len(infectedCells) = 0 THEN NoPath
        ELSE [waypoints |-> infectedCells,
              totalDistance |-> ToFixed1(total),
              estimatedTime |-> EstimatedTime(total, Len(infectedCells)),
              pathExists |-> TRUE,
              startPoint |-> startPoint,
              endPoint |-> startPoint]

-----------------------------------------------------------------------------
(* identifyInfectedZones *)

\* a plausible slip: the search also follows the four diagonal neighbours
RECURSIVE DfsWithDiagonals(_, _, _, _)
DfsWithDiagonals(g, row, col, state) ==
    LET rows   == Len(g.cells)
        cols   == Len(g.cells[1])
        cellId == ToString(row) \o "_" \o ToString(col)
    IN  IF row < 0 \/ row >= rows \/ col < 0 \/ col >= cols THEN state
        ELSE IF cellId \in state.visited THEN state
        ELSE IF ~g.cells[row + 1][col + 1].infected THEN state
        ELSE LET entered == [visited |-> state.visited \cup {cellId},
                             zone |-> Append(state.zone, g.cells[row + 1][col + 1])]
                 north == DfsWithDiagonals(g, row - 1, col, entered)
                 south == DfsWithDiagonals(g, row + 1, col, north)
                 west  == DfsWithDiagonals(g, row, col - 1, south)
                 east  == DfsWithDiagonals(g, row, col + 1, west)
                 nw    == DfsWithDiagonals(g, row - 1, col - 1, east)
                 ne    == DfsWithDiagonals(g, row - 1, col + 1, nw)
                 sw    == DfsWithDiagonals(g, row + 1, col - 1, ne)
             IN  DfsWithDiagonals(g, row + 1, col + 1, sw)

\* dfs(row, col, currentZone) of identifyInfectedZones; state carries the
\* visited set and the zone collected so far
RECURSIVE Dfs(_, _, _, _)
Dfs(g, row, col, state) ==
    LET rows   == Len(g.cells)
        cols   == Len(g.cells[1])
        cellId == ToString(row) \o "_" \o ToString(col)
    IN  IF row < 0 \/ row >= rows \/ col < 0 \/ col >= cols THEN state
        ELSE IF cellId \in state.visited THEN state
        ELSE IF ~g.cells[row + 1][col + 1].infected THEN state
        ELSE LET entered == [visited |-> state.visited \cup {cellId},
                             zone |-> Append(state.zone, g.cells[row + 1][col + 1])]
                 north == Dfs(g, row - 1, col, entered)
                 south == Dfs(g, row + 1, col, north)
                 west  == Dfs(g, row, col - 1, south)
             IN  Dfs(g, row, col + 1, west)

\* the nested loops over all cells; only an infected cell makes the body do
\* anything, so the loop is followed over the infected cells in row-major
\* order, from the i-th on
RECURSIVE ZonesFrom(_, _, _, _, _)
ZonesFrom(g, infectedCells, i, visited, zones) ==
    IF i > Len(infectedCells) THEN zones
    ELSE LET cell == infectedCells[i]
         IN  IF cell.id \notin visited
             THEN LET found == Dfs(g, cell.row, cell.col,
                                   [visited |-> visited, zone |-> <<>>])
                  IN  ZonesFrom(g, infectedCells, i + 1, found.visited,
                                IF Len(found.zone) > 0 THEN Append(zones, found.zone)
                                ELSE zones)
             ELSE ZonesFrom(g, infectedCells, i + 1, visited, zones)

\* grid[0].length throws on a grid without rows
IdentifyInfectedZonesOf(g) ==
    IF Len(g.cells) = 0 THEN Thrown
    ELSE [zones |-> ZonesFrom(g, SelectSeq(FlattenGrid(g), LAMBDA cell : cell.infected),
                              1, {}, <<>>)]

\* zones.reduce((sum, zone) => sum + zone.length, 0), from zone i on
RECURSIVE SumOfZoneSizes(_, _)
SumOfZoneSizes(zones, i) ==
    IF i > Len(zones) THEN 0 ELSE Len(zones[i]) + SumOfZoneSizes(zones, i + 1)

\* Math.max(...zones.map(zone => zone.length)) of a non-empty array
LargestZoneSize(zones) ==
    CHOOSE n \in { Len(zones[i]) : i \in 1..Len(zones) } :
        \A i \in 1..Len(zones) : Len(zones[i]) <= n

\* (sum / count).toFixed(1): the decimal string of the quotient rounded to
\* tenths, the larger one of two equally near tenths
ToFixed1String(sum, count) ==
    LET tenths == (20 * sum + count) \div (2 * count)
    IN  ToString(tenths \div 10) \o "." \o ToString(tenths % 10)

\* getZoneStatistics; averageZoneSize is a string unless there is no zone
GetZoneStatisticsOf(zones) ==
    [zoneCount |-> Len(zones),
     totalInfectedCells |-> SumOfZoneSizes(zones, 1),
     averageZoneSize |-> IF Len(zones) > 0
                         THEN ToFixed1String(SumOfZoneSizes(zones, 1), Len(zones))
                         ELSE 0,
     largestZone |-> IF Len(zones) > 0 THEN LargestZoneSize(zones) ELSE 0]

-----------------------------------------------------------------------------
(* Calls of the grid, zone and path functions.  The caller keeps every     *)
(* grid it was given; grids[ref] is the grid object with reference ref.    *)

MaxGrids == 2       \* grids built by mapDetectionsToGrid in one run

\* a plausible slip: one grid object built once and handed out again
AllocGridCached(heap) ==
    IF Len(heap) > 0 THEN [heap |-> heap, ref |-> 1]
    ELSE [heap |-> Append(heap, CreateFieldGrid), ref |-> Len(heap) + 1]

\* const grid = createFieldGrid(): a new object on every call
AllocGrid(heap) == [heap |-> Append(heap, CreateFieldGrid), ref |-> Len(heap) + 1]

\* mapDetectionsToGrid on a heap of grid objects: the new grid is filled in
\* place, the reference to it is returned
MapDetectionsToGridIn(heap, dets) ==
    LET new == AllocGrid(heap)
    IN  [heap |-> [new.heap EXCEPT ![new.ref] = AddDetectionsFrom(1, dets, @)],
         ref |-> new.ref]

-----------------------------------------------------------------------------
(* extractSignals *)

\* the default signals (the timestamp is left out)
DefaultSignals ==
    [infectionPercentage |-> 0, roiRatio |-> 0, potentialLoss |-> 0,
     soilMoisture |-> M(50), soilTemperature |-> M(25), airHumidity |-> M(60),
     fusionSeverity |-> "none", fusionDiagnosis |-> "Unknown",
     fusionConfidence |-> 0, infectionGrowthRate |-> 0]

\* if (gridStats) { ... }: the signals the block assigns
GridSignals(gs) ==
    IF gs # Null
    THEN [infectionPercentage |-> NumOr(gs, "infectionPercentage", 0),
          infectedCount |-> NumOr(gs, "infectedCount", 0),
          totalCells |-> NumOr(gs, "totalCells", 100)]
    ELSE [infectionPercentage |-> DefaultSignals.infectionPercentage]

\* if (economicImpact && economicImpact.roi) { ... }
EconomicSignals(ei) ==
    IF ei # Null /\ Has(ei, "roi") /\ ei.roi # Null
    THEN [roiRatio |-> IF Has(ei.roi, "perApplication") /\ ei.roi.perApplication # Null
                       THEN NumOr(ei.roi.perApplication, "roiRatio", 0)
                       ELSE 0,
          potentialLoss |-> NumOr(ei, "potentialLoss", 0)]
    ELSE [roiRatio |-> DefaultSignals.roiRatio,
          potentialLoss |-> DefaultSignals.potentialLoss]

FusionDefaults ==
    [fusionSeverity |-> DefaultSignals.fusionSeverity,
     fusionDiagnosis |-> DefaultSignals.fusionDiagnosis,
     fusionConfidence |-> DefaultSignals.fusionConfidence]

\* a plausible slip: the first element of the batch read instead of the last
FusionSignalsFirst(fr) ==
    IF fr # Null /\ Len(fr.items) > 0
    THEN LET latestFusion == fr.items[1]
         IN  IF latestFusion = Null THEN Thrown
             ELSE IF Has(latestFusion, "diagnosis") /\ latestFusion.diagnosis # Null
             THEN [fusionSeverity |-> StrOr(latestFusion.diagnosis, "severity", "none"),
                   fusionDiagnosis |->
                       StrOr(latestFusion.diagnosis, "refined_diagnosis", "Unknown"),
                   fusionConfidence |-> NumOr(latestFusion.diagnosis, "confidence", 0)]
             ELSE FusionDefaults
    ELSE FusionDefaults

\* if (fusionResults && fusionResults.length > 0) { ... }: reading .diagnosis
\* of a null element raises a TypeError
FusionSignals(fr) ==
    IF fr # Null /\ Len(fr.items) > 0
    THEN LET latestFusion == fr.items[Len(fr.items)]
         IN  IF latestFusion = Null THEN Thrown
             ELSE IF Has(latestFusion, "diagnosis") /\ latestFusion.diagnosis # Null
             THEN [fusionSeverity |-> StrOr(latestFusion.diagnosis, "severity", "none"),
                   fusionDiagnosis |->
                       StrOr(latestFusion.diagnosis, "refined_diagnosis", "Unknown"),
                   fusionConfidence |-> NumOr(latestFusion.diagnosis, "confidence", 0)]
             ELSE FusionDefaults
    ELSE FusionDefaults

SensorDefaults ==
    [soilMoisture |-> DefaultSignals.soilMoisture,
     soilTemperature |-> DefaultSignals.soilTemperature,
     airHumidity |-> DefaultSignals.airHumidity]

\* a plausible slip: the null check of sensorData left out
SensorSignalsUnguarded(sd) ==
    IF sd = Null THEN Thrown
    ELSE [soilMoisture |-> NumOr(sd, "soil_moisture", M(50)),
          soilTemperature |-> NumOr(sd, "soil_temperature", M(25)),
          airHumidity |-> NumOr(sd, "air_humidity", M(60))]

\* if (sensorData) { ... }
SensorSignals(sd) ==
    IF sd # Null
    THEN [soilMoisture |-> NumOr(sd, "soil_moisture", M(50)),
          soilTemperature |-> NumOr(sd, "soil_temperature", M(25)),
          airHumidity |-> NumOr(sd, "air_humidity", M(60))]
    ELSE SensorDefaults

\* a plausible slip: the upper range entered at 15 % already
GrowthRateInclusive(infectionPercentage) ==
    IF infectionPercentage >= M(15) THEN infectionPercentage * 150
    ELSE IF infectionPercentage > M(5) THEN infectionPercentage * 100
    ELSE DefaultSignals.infectionGrowthRate

\* the growth-rate estimate, in millionths: x 0.15 above 15 %, x 0.1 above 5 %
GrowthRate(infectionPercentage) ==
    IF infectionPercentage > M(15) THEN infectionPercentage * 150
    ELSE IF infectionPercentage > M(5) THEN infectionPercentage * 100
    ELSE DefaultSignals.infectionGrowthRate

\* extractSignals(detections, gridStats, economicImpact, fusionResults,
\* sensorData): the signals object, or Thrown
ExtractSignalsOf(dets, gs, ei, fr, sd) ==
    LET g == GridSignals(gs)
        e == EconomicSignals(ei)
        f == FusionSignals(fr)
        n == SensorSignals(sd)
    IN  IF f = Thrown \/ n = Thrown THEN Thrown
        ELSE [infectionGrowthRate |-> GrowthRate(g.infectionPercentage)]
                 @@ g @@ e @@ f @@ n

-----------------------------------------------------------------------------
(* Decision rules (DECISION_RULES) *)

\* the rule table in its source order; toFixedOf lists the signals on which
\* the message function calls .toFixed directly
DECISION_RULES ==
    << [id |-> "RULE_001", name |-> "Critical Infection Outbreak", priority |-> 1,
        type |-> "CRITICAL", title |-> "Disease Outbreak Detected",
        toFixedOf |-> {"infectionPercentage"}],
       [id |-> "RULE_003", name |-> "Critical Drought Stress", priority |-> 1,
        type |-> "CRITICAL", title |-> "Severe Drought Detected",
        toFixedOf |-> {"soilMoisture"}],
       [id |-> "RULE_007", name |-> "High Economic Risk", priority |-> 1,
        type |-> "CRITICAL", title |-> "High Economic Risk",
        toFixedOf |-> {}],
       [id |-> "RULE_008", name |-> "Rapid Infection Growth", priority |-> 1,
        type |-> "CRITICAL", title |-> "Rapid Disease Spread",
        toFixedOf |-> {"infectionGrowthRate"}],
       [id |-> "RULE_002", name |-> "Moderate Infection Warning", priority |-> 2,
        type |-> "WARNING", title |-> "Infection Spreading",
        toFixedOf |-> {"infectionPercentage"}],
       [id |-> "RULE_004", name |-> "Heat Stress Alert", priority |-> 2,
        type |-> "WARNING", title |-> "Heat Stress Risk",
        toFixedOf |-> {"soilTemperature"}],
       [id |-> "RULE_005", name |-> "Fungal Outbreak Risk", priority |-> 2,
        type |-> "WARNING", title |-> "High Fungal Risk",
        toFixedOf |-> {"airHumidity", "soilMoisture"}],
       [id |-> "RULE_006", name |-> "Low ROI Warning", priority |-> 2,
        type |-> "WARNING", title |-> "Low ROI - Verify Before Action",
        toFixedOf |-> {"roiRatio"}],
       [id |-> "RULE_010", name |-> "Early Detection - Preventive Action", priority |-> 4,
        type |-> "INFO", title |-> "Early Detection - Preventive Opportunity",
        toFixedOf |-> {"infectionPercentage"}],
       [id |-> "RULE_009", name |-> "System Healthy", priority |-> 5,
        type |-> "INFO", title |-> "Field Health Excellent",
        toFixedOf |-> {}] >>

RuleIds == { DECISION_RULES[i].id : i \in 1..Len(DECISION_RULES) }

\* comparisons of a signal with a number; a missing signal is undefined and
\* every comparison with undefined is false
Gt(s, f, k) == Has(s, f) /\ s[f] > k
Lt(s, f, k) == Has(s, f) /\ s[f] < k
Ge(s, f, k) == Has(s, f) /\ s[f] >= k
Le(s, f, k) == Has(s, f) /\ s[f] <= k

\* signals.fusionSeverity === v
SeverityIs(s, v) == Has(s, "fusionSeverity") /\ s.fusionSeverity = v

\* signals.fusionDiagnosis && signals.fusionDiagnosis.toLowerCase().includes(kw)
DiagnosisMentions(s, kw) ==
    /\ Has(s, "fusionDiagnosis")
    /\ s.fusionDiagnosis # ""
    /\ Includes(ToLowerCase(s.fusionDiagnosis), kw)

\* a plausible slip: the upper bound of RULE_002 written < 25 instead of <= 25
RuleConditionStrictUpper(id, s) ==
    CASE id = "RULE_001" ->
            Gt(s, "infectionPercentage", M(25))
                /\ (SeverityIs(s, "high") \/ SeverityIs(s, "medium"))
      [] id = "RULE_003" ->
            Lt(s, "soilMoisture", M(20)) \/ DiagnosisMentions(s, "drought")
      [] id = "RULE_007" ->
            Gt(s, "potentialLoss", 100000) /\ Gt(s, "infectionPercentage", M(15))
      [] id = "RULE_008" ->
            Gt(s, "infectionGrowthRate", M(M(2)))
      [] id = "RULE_002" ->
            /\ Ge(s, "infectionPercentage", M(10))
            /\ Lt(s, "infectionPercentage", M(25))
            /\ ~SeverityIs(s, "none")
      [] id = "RULE_004" ->
            Gt(s, "soilTemperature", M(35)) \/ DiagnosisMentions(s, "heat")
      [] id = "RULE_005" ->
            \/ Gt(s, "airHumidity", M(85)) /\ Gt(s, "soilMoisture", M(70))
            \/ DiagnosisMentions(s, "fungal")
      [] id = "RULE_006" ->
            /\ Gt(s, "roiRatio", 0) /\ Lt(s, "roiRatio", M(2))
            /\ Lt(s, "infectionPercentage", M(15))
      [] id = "RULE_010" ->
            /\ Ge(s, "infectionPercentage", M(3))
            /\ Lt(s, "infectionPercentage", M(10))
            /\ Gt(s, "fusionConfidence", 700)
      [] id = "RULE_009" ->
            /\ Lt(s, "infectionPercentage", M(5))
            /\ Ge(s, "soilMoisture", M(40)) /\ Le(s, "soilMoisture", M(70))
            /\ Ge(s, "soilTemperature", M(20)) /\ Le(s, "soilTemperature", M(32))
            /\ DiagnosisMentions(s, "healthy")

\* rule.condition(signals) for a signals object (not null)
RuleCondition(id, s) ==
    CASE id = "RULE_001" ->
            Gt(s, "infectionPercentage", M(25))
                /\ (SeverityIs(s, "high") \/ SeverityIs(s, "medium"))
      [] id = "RULE_003" ->
            Lt(s, "soilMoisture", M(20)) \/ DiagnosisMentions(s, "drought")
      [] id = "RULE_007" ->
            Gt(s, "potentialLoss", 100000) /\ Gt(s, "infectionPercentage", M(15))
      [] id = "RULE_008" ->
            Gt(s, "infectionGrowthRate", M(M(2)))
      [] id = "RULE_002" ->
            /\ Ge(s, "infectionPercentage", M(10))
            /\ Le(s, "infectionPercentage", M(25))
            /\ ~SeverityIs(s, "none")
      [] id = "RULE_004" ->
            Gt(s, "soilTemperature", M(35)) \/ DiagnosisMentions(s, "heat")
      [] id = "RULE_005" ->
            \/ Gt(s, "airHumidity", M(85)) /\ Gt(s, "soilMoisture", M(70))
            \/ DiagnosisMentions(s, "fungal")
      [] id = "RULE_006" ->
            /\ Gt(s, "roiRatio", 0) /\ Lt(s, "roiRatio", M(2))
            /\ Lt(s, "infectionPercentage", M(15))
      [] id = "RULE_010" ->
            /\ Ge(s, "infectionPercentage", M(3))
            /\ Lt(s, "infectionPercentage", M(10))
            /\ Gt(s, "fusionConfidence", 700)
      [] id = "RULE_009" ->
            /\ Lt(s, "infectionPercentage", M(5))
            /\ Ge(s, "soilMoisture", M(40)) /\ Le(s, "soilMoisture", M(70))
            /\ Ge(s, "soilTemperature", M(20)) /\ Le(s, "soilTemperature", M(32))
            /\ DiagnosisMentions(s, "healthy")

\* rule.alert.message(signals) raises a TypeError when it calls .toFixed on a
\* signal the object lacks
MessageThrows(rule, s) == \E f \in rule.toFixedOf : ~Has(s, f)

-----------------------------------------------------------------------------
(* evaluateAlerts *)

\* the alert object built for a triggered rule (the fields the pipeline reads;
\* titles are kept without their leading emoji)
MakeAlert(rule) ==
    [ruleId |-> rule.id, ruleName |-> rule.name, priority |-> rule.priority,
     type |-> rule.type, title |-> rule.title]

\* one pass through the try block of a rule:
\*   "throw" the condition or the message function raised,
\*   "alert" the alert was pushed, "skip" the condition was false
RuleOutcome(rule, s) ==
    IF s = Null THEN "throw"
    ELSE IF ~RuleCondition(rule.id, s) THEN "skip"
    ELSE IF MessageThrows(rule, s) THEN "throw"
    ELSE "alert"

\* a plausible slip: try/catch around the whole loop, so that the first rule
\* that throws ends the evaluation
RECURSIVE TriggeredFromAbortOnThrow(_, _)
TriggeredFromAbortOnThrow(i, s) ==
    IF i > Len(DECISION_RULES) THEN <<>>
    ELSE LET rule == DECISION_RULES[i]
             out  == RuleOutcome(rule, s)
         IN  IF out = "throw" THEN <<>>
             ELSE (IF out = "alert" THEN <<MakeAlert(rule)>> ELSE <<>>)
                      \o TriggeredFromAbortOnThrow(i + 1, s)

\* the for loop over DECISION_RULES from rule i on: a rule that throws is
\* caught inside the loop body and the loop goes on
RECURSIVE TriggeredFrom(_, _)
TriggeredFrom(i, s) ==
    IF i > Len(DECISION_RULES) THEN <<>>
    ELSE LET rule == DECISION_RULES[i]
         IN  (IF RuleOutcome(rule, s) = "alert" THEN <<MakeAlert(rule)>> ELSE <<>>)
                 \o TriggeredFrom(i + 1, s)

\* insert an alert into a list sorted by priority, after its equals
RECURSIVE InsertByPriority(_, _)
InsertByPriority(a, sorted) ==
    IF sorted = <<>> THEN <<a>>
    ELSE IF sorted[1].priority > a.priority THEN <<a>> \o sorted
    ELSE <<sorted[1]>> \o InsertByPriority(a, Tail(sorted))

\* a plausible slip: the comparator written b.priority - a.priority
RECURSIVE SortByPriorityDescending(_)
SortByPriorityDescending(list) ==
    IF list = <<>> THEN <<>>
    ELSE LET rest == SortByPriorityDescending(SubSeq(list, 1, Len(list) - 1))
             a    == list[Len(list)]
             pos  == Cardinality({ i \in 1..Len(rest) : rest[i].priority >= a.priority })
         IN  SubSeq(rest, 1, pos) \o <<a>> \o SubSeq(rest, pos + 1, Len(rest))

\* triggeredAlerts.sort((a, b) => a.priority - b.priority): Array.prototype.sort
\* is stable, alerts of equal priority keep their order
RECURSIVE SortByPriority(_)
SortByPriority(list) ==
    IF list = <<>> THEN <<>>
    ELSE InsertByPriority(list[Len(list)],
                          SortByPriority(SubSeq(list, 1, Len(list) - 1)))

EvaluateAlertsOf(s) == SortByPriority(TriggeredFrom(1, s))

-----------------------------------------------------------------------------
(* resolveConflicts *)

Categories == <<"disease", "environmental", "economic", "system">>

\* a plausible slip: the disease keyword written in lower case, which no
\* title contains
CategoryOfLowerCaseKeyword(alert) ==
    IF Includes(alert.title, "disease") \/ Includes(alert.title, "Infection")
        THEN "disease"
    ELSE IF \/ Includes(alert.title, "Drought")
            \/ Includes(alert.title, "Heat")
            \/ Includes(alert.title, "Humidity")
        THEN "environmental"
    ELSE IF Includes(alert.title, "ROI") \/ Includes(alert.title, "Economic")
        THEN "economic"
    ELSE "system"

\* the if / else-if chain on alert.title.includes(...)
CategoryOf(alert) ==
    IF Includes(alert.title, "Disease") \/ Includes(alert.title, "Infection")
        THEN "disease"
    ELSE IF \/ Includes(alert.title, "Drought")
            \/ Includes(alert.title, "Heat")
            \/ Includes(alert.title, "Humidity")
        THEN "environmental"
    ELSE IF Includes(alert.title, "ROI") \/ Includes(alert.title, "Economic")
        THEN "economic"
    ELSE "system"

\* categories.<category>: the alerts of one category in input order
CategoryAlerts(list, category) ==
    SelectSeq(list, LAMBDA a : CategoryOf(a) = category)

\* a plausible slip: the last alert of each category kept instead of the first
RECURSIVE ResolvedFromKeepLast(_, _)
ResolvedFromKeepLast(i, list) ==
    IF i > Len(Categories) THEN <<>>
    ELSE LET categoryAlerts == CategoryAlerts(list, Categories[i])
         IN  (IF Len(categoryAlerts) > 0
                 THEN <<categoryAlerts[Len(categoryAlerts)]>> ELSE <<>>)
                 \o ResolvedFromKeepLast(i + 1, list)

\* Object.values(categories).forEach: categoryAlerts[0] of each non-empty
\* category, in the order the categories were declared
RECURSIVE ResolvedFrom(_, _)
ResolvedFrom(i, list) ==
    IF i > Len(Categories) THEN <<>>
    ELSE LET categoryAlerts == CategoryAlerts(list, Categories[i])
         IN  (IF Len(categoryAlerts) > 0 THEN <<categoryAlerts[1]>> ELSE <<>>)
                 \o ResolvedFrom(i + 1, list)

ResolveConflictsOf(list) ==
    IF Len(list) <= 1 THEN list ELSE ResolvedFrom(1, list)

-----------------------------------------------------------------------------
(* AlertDebouncer *)

\* the (ruleId, type) pairs of the alerts handed to shouldShowAlert
DebouncedAlerts ==
    { [ruleId |-> "RULE_001", type |-> "CRITICAL"],
      [ruleId |-> "RULE_002", type |-> "WARNING"] }

\* const key = `${alert.ruleId}_${alert.type}`
AlertKey(alert) == alert.ruleId \o "_" \o alert.type

\* a plausible slip: the window test written with >= instead of >
DebounceAllowsInclusive(map, key, t, w) ==
    \/ key \notin DOMAIN map
    \/ map[key] = 0
    \/ (t - map[key]) >= w

\* !lastShown || (now - lastShown) > this.windowMs
DebounceAllows(map, key, t, w) ==
    \/ key \notin DOMAIN map
    \/ map[key] = 0
    \/ (t - map[key]) > w

\* this.recentAlerts.set(key, now)
MapSet(map, key, t) ==
    [k \in (DOMAIN map) \cup {key} |-> IF k = key THEN t ELSE map[k]]

EmptyMap == [k \in {} |-> 0]

\* a plausible slip: the timestamp refreshed on every call, shown or not
DebounceStoreAlways(map, key, t, shown) == MapSet(map, key, t)

\* the map after one shouldShowAlert call: set only inside the if
DebounceStore(map, key, t, shown) ==
    IF shown THEN MapSet(map, key, t) ELSE map

ShouldShowAlert(alert) ==
    /\ Len(calls) < MaxCalls
    /\ LET key   == AlertKey(alert)
           shown == DebounceAllows(recentAlerts, key, now, windowMs)
       IN  /\ recentAlerts' = DebounceStore(recentAlerts, key, now, shown)
           /\ calls' = Append(calls, [key |-> key, at |-> now, shown |-> shown])
    /\ UNCHANGED <<windowMs, now>>
    /\ UNCHANGED pipelineVars
    /\ UNCHANGED fieldVars
    /\ UNCHANGED panelVars

Clear ==
    /\ recentAlerts' = EmptyMap
    /\ calls' = <<>>
    /\ UNCHANGED <<windowMs, now>>
    /\ UNCHANGED pipelineVars
    /\ UNCHANGED fieldVars
    /\ UNCHANGED panelVars

\* wall-clock time passes between calls
Tick ==
    /\ now < MaxTime
    /\ now' = now + 1
    /\ UNCHANGED <<recentAlerts, windowMs, calls>>
    /\ UNCHANGED pipelineVars
    /\ UNCHANGED fieldVars
    /\ UNCHANGED panelVars

PipelineIdle ==
    /\ pc = "idle"
    /\ entry = "idle"
    /\ detections = <<>>
    /\ grid = [cells |-> <<>>]
    /\ gridStats = Null
    /\ economicImpact = Null
    /\ fusionResults = Null
    /\ sensorData = Null
    /\ signals = Null
    /\ alerts = <<>>
    /\ resolved = <<>>

\* no grid, zone or path function has been called
FieldIdle ==
    /\ grids = <<>>
    /\ call = [name |-> "none"]
    /\ result = Null

\* the panel is mounted, nothing has arrived yet
PanelIdle ==
    /\ feed = <<>>
    /\ memoFusion = [items |-> <<>>]
    /\ panelProps = [gridStats |-> Null, economicImpact |-> Null]
    /\ panelAlerts = <<>>
    /\ pending = [gridStats |-> TRUE, economicImpact |-> TRUE, evaluate |-> TRUE,
                  deliver |-> TRUE, render |-> FALSE]
    /\ dashboard = [alerts |-> <<>>, recommendations |-> <<>>]
    /\ cycle = [ran |-> FALSE]
    /\ emissions = [k \in {} |-> 0]

\* new AlertDebouncer(windowMs)
InitDebouncer ==
    /\ recentAlerts = EmptyMap
    /\ windowMs \in 1..MaxWindow
    /\ now = 1
    /\ calls = <<>>
    /\ PipelineIdle
    /\ FieldIdle
    /\ PanelIdle

NextDebouncer ==
    \/ \E alert \in DebouncedAlerts : ShouldShowAlert(alert)
    \/ Clear
    \/ Tick

SpecDebouncer == InitDebouncer /\ [][NextDebouncer]_vars

-----------------------------------------------------------------------------
(* Inputs of the pure functions *)

MaxAlerts == 3      \* length of the alert lists handed to resolveConflicts directly

\* JavaScript arrays that may also be null are wrapped: [items |-> <<...>>]
Arr(seq) == [items |-> seq]

\* GPS of the centre of the k-th cell (k = 1, 2, ...) of the 5-column block in
\* the north-west corner of the field, counted row by row
CornerCellCenter(k) == NewCell((k - 1) \div 5, (k - 1) % 5).center

\* n detections, one in each of the first n cells of the corner block
CornerDetections(n) == [k \in 1..n |-> [id |-> k, gps |-> CornerCellCenter(k)]]

DetectionCounts == {0, 4, 9, 15, 16, 25, 26}

DetectionLists ==
    { CornerDetections(n) : n \in DetectionCounts } \cup
    { \* a detection without GPS between two located ones
      << [id |-> 1, gps |-> CornerCellCenter(1)], [id |-> 2],
         [id |-> 3, gps |-> CornerCellCenter(2)] >>,
      \* two detections in one cell, one outside the field
      << [id |-> 1, gps |-> CornerCellCenter(7)],
         [id |-> 2, gps |-> CornerCellCenter(7)],
         [id |-> 3, gps |-> [lat |-> FieldCenter.lat + FieldLatDelta,
                             lng |-> FieldCenter.lng]] >> }

\* the object performFusion returns for a matched fusion rule or for the
\* uncertain fallback
FusionResult(diag, sev, conf) ==
    [diagnosis |-> [refined_diagnosis |-> diag, severity |-> sev, confidence |-> conf]]

\* every result performFusion can return
PerformFusionResults ==
    { FusionResult("Drought Stress", "high", 950),
      FusionResult("Fungal Infection (High Humidity)", "high", 900),
      FusionResult("Nutrient Deficiency (pH imbalance)", "medium", 850),
      FusionResult("Heat Stress", "high", 920),
      FusionResult("High Disease Risk (Preventive Alert)", "low", 750),
      FusionResult("Healthy (Confirmed)", "none", 980),
      FusionResult("Overwatering / Root Rot Risk", "high", 880),
      FusionResult("Cold Stress", "medium", 800),
      FusionResult("Uncertain - Multiple Factors", "unknown", 500),
      \* no sensor data: vision only, no refined_diagnosis and no severity
      [diagnosis |-> [type |-> "leaf_blight", confidence |-> 870,
                      source |-> "vision_only"]],
      \* no vision detection
      [status |-> "no_vision_data", diagnosis |-> Null] }

\* batches whose order matters for "the most recent"
FusionPairPool ==
    { FusionResult("Drought Stress", "high", 950),
      FusionResult("Healthy (Confirmed)", "none", 980),
      FusionResult("Cold Stress", "medium", 800) }

FusionBatches ==
    { Null, Arr(<<>>) }
        \cup { Arr(<<r>>) : r \in PerformFusionResults }
        \cup { Arr(<<a, b>>) : a \in FusionPairPool, b \in FusionPairPool }

\* fusion results that are not produced by performFusion, for direct calls
ForeignFusionBatches ==
    { Arr(<<Null>>),
      Arr(<<FusionResult("Healthy leaf", "high", 990)>>),
      Arr(<<FusionResult("", "", 0)>>),
      Arr(<<[status |-> "pending"]>>) }

SensorSnapshots ==
    { Null, [soil_temperature |-> M(25), air_humidity |-> M(60)] }
        \cup { [soil_moisture |-> m, soil_temperature |-> t, air_humidity |-> h] :
                 m \in {0, M(15), M(20), M(45), M(75)},
                 t \in {M(25), M(36)},
                 h \in {M(60), M(90)} }

EconomicImpacts ==
    { Null,
      \* calculateEconomicImpact on a grid without infection
      [hasInfection |-> FALSE, roi |-> Null],
      \* the shape extractSignals reads
      [roi |-> [perApplication |-> [roiRatio |-> 1500]], potentialLoss |-> 150000],
      [roi |-> [perApplication |-> [roiRatio |-> M(3)]], potentialLoss |-> 80000],
      \* roi without perApplication
      [roi |-> [seasonal |-> Null], potentialLoss |-> 150000] }

\* gridStats arguments of a direct extractSignals call: null, objects that
\* carry an infectionPercentage property, and an object without any number
GridStatsInputs ==
    { Null, [status |-> "pending"] }
        \cup { [infectionPercentage |-> p, infectedCount |-> p \div 1000,
                totalCells |-> 100] :
                 p \in {0, M(4), M(5), 5100, M(12), M(15), 15100, M(25), 25100, M(30)} }

\* signal snapshots of a direct evaluateAlerts call.  Every rule reads either
\* the infection / economy / fusion-grade signals or the sensor / diagnosis
\* signals (System Healthy reads infectionPercentage as well), so each group
\* is varied around its thresholds while the other keeps its defaults.
InfectionSnapshots ==
    { [DefaultSignals EXCEPT !.infectionPercentage = p, !.fusionSeverity = sev,
                             !.infectionGrowthRate = g, !.fusionConfidence = c,
                             !.potentialLoss = loss, !.roiRatio = roi] :
        p \in {0, M(3), M(5), 9900, M(10), 14900, M(15), 15100, M(25), 25100},
        sev \in {"none", "low", "medium", "high"},
        g \in {0, M(M(2)), 2265000},
        c \in {700, 750},
        loss \in {100000, 150000},
        roi \in {0, 1500, M(2)} }

SensorSnapshotsOfSignals ==
    { [DefaultSignals EXCEPT !.soilMoisture = m, !.soilTemperature = t,
                             !.airHumidity = h, !.fusionDiagnosis = d,
                             !.infectionPercentage = p] :
        m \in {19900, M(20), M(40), M(70), 70100},
        t \in {19900, M(20), M(32), M(35), 35100},
        h \in {M(85), 85100},
        d \in {"Unknown", "", "Drought Stress", "HEAT stress", "Fungal Infection",
               "Healthy (Confirmed)"},
        p \in {4900, M(5)} }

\* snapshots that are not what extractSignals builds: null, and objects that
\* lack one of the signals a message function formats
MalformedSnapshots ==
    { Null }
        \cup { [f \in (DOMAIN DefaultSignals) \ {missing} |->
                   IF f = "fusionDiagnosis" THEN d
                   ELSE IF f = "infectionPercentage" THEN M(30)
                   ELSE IF f = "fusionSeverity" THEN "high"
                   ELSE DefaultSignals[f]] :
                 missing \in {"soilMoisture", "soilTemperature", "airHumidity",
                              "infectionGrowthRate", "fusionDiagnosis"},
                 d \in {"Drought Stress", "Heat Stress", "Fungal Infection",
                        "Drought and heat, fungal"} }

SignalSnapshots == InfectionSnapshots \cup SensorSnapshotsOfSignals \cup MalformedSnapshots

RuleAlerts == { MakeAlert(DECISION_RULES[i]) : i \in 1..Len(DECISION_RULES) }

\* every list of up to MaxAlerts different alerts, in any order
AlertLists ==
    UNION { { l \in [1..n -> RuleAlerts] : \A i, j \in 1..n : i # j => l[i] # l[j] } :
            n \in 0..MaxAlerts }

-----------------------------------------------------------------------------
(* One pass of the pure pipeline: pc names the function applied next *)

MapDetectionsToGrid ==
    /\ pc = "mapDetectionsToGrid"
    /\ grid' = MapDetectionsToGridOf(detections)
    /\ pc' = "calculateGridStats"
    /\ UNCHANGED <<entry, detections, gridStats, economicImpact, fusionResults,
                   sensorData, signals, alerts, resolved>>
    /\ UNCHANGED debouncerVars
    /\ UNCHANGED fieldVars
    /\ UNCHANGED panelVars

CalculateGridStats ==
    /\ pc = "calculateGridStats"
    /\ gridStats' = CalculateGridStatsOf(grid)
    /\ pc' = "extractSignals"
    /\ UNCHANGED <<entry, detections, grid, economicImpact, fusionResults,
                   sensorData, signals, alerts, resolved>>
    /\ UNCHANGED debouncerVars
    /\ UNCHANGED fieldVars
    /\ UNCHANGED panelVars

\* extractSignals is called with the grid stats at hand and any economic
\* impact, fusion results and sensor data
ExtractSignals(ei, fr, sd) ==
    /\ pc = "extractSignals"
    /\ economicImpact' = ei
    /\ fusionResults' = fr
    /\ sensorData' = sd
    /\ signals' = ExtractSignalsOf(detections, gridStats, ei, fr, sd)
    /\ pc' = IF signals' = Thrown THEN "threw" ELSE "evaluateAlerts"
    /\ UNCHANGED <<entry, detections, grid, gridStats, alerts, resolved>>
    /\ UNCHANGED debouncerVars
    /\ UNCHANGED fieldVars
    /\ UNCHANGED panelVars

EvaluateAlerts ==
    /\ pc = "evaluateAlerts"
    /\ alerts' = EvaluateAlertsOf(signals)
    /\ pc' = "resolveConflicts"
    /\ UNCHANGED <<entry, detections, grid, gridStats, economicImpact,
                   fusionResults, sensorData, signals, resolved>>
    /\ UNCHANGED debouncerVars
    /\ UNCHANGED fieldVars
    /\ UNCHANGED panelVars

ResolveConflicts ==
    /\ pc = "resolveConflicts"
    /\ resolved' = ResolveConflictsOf(alerts)
    /\ pc' = "done"
    /\ UNCHANGED <<entry, detections, grid, gridStats, economicImpact,
                   fusionResults, sensorData, signals, alerts>>
    /\ UNCHANGED debouncerVars
    /\ UNCHANGED fieldVars
    /\ UNCHANGED panelVars

NoGrid == [cells |-> <<>>]

DebouncerIdle ==
    /\ recentAlerts = EmptyMap
    /\ windowMs = 30000
    /\ now = 1
    /\ calls = <<>>

\* a pass starts at mapDetectionsToGrid with a detection list, or directly at
\* extractSignals, evaluateAlerts or resolveConflicts with an argument
Init ==
    /\ DebouncerIdle
    /\ FieldIdle
    /\ PanelIdle
    /\ entry \in {"mapDetectionsToGrid", "extractSignals", "evaluateAlerts",
                  "resolveConflicts"}
    /\ pc = entry
    /\ detections \in IF entry = "mapDetectionsToGrid" THEN DetectionLists ELSE {<<>>}
    /\ grid = NoGrid
    /\ gridStats \in IF entry = "extractSignals" THEN GridStatsInputs ELSE {Null}
    /\ economicImpact = Null
    /\ fusionResults = Null
    /\ sensorData = Null
    /\ signals \in IF entry = "evaluateAlerts" THEN SignalSnapshots ELSE {Null}
    /\ alerts \in IF entry = "resolveConflicts" THEN AlertLists ELSE {<<>>}
    /\ resolved = <<>>

Next ==
    \/ MapDetectionsToGrid
    \/ CalculateGridStats
    \/ /\ pc = "extractSignals"
       /\ \E ei \in EconomicImpacts, sd \in SensorSnapshots :
              \E fr \in IF entry = "extractSignals"
                        THEN FusionBatches \cup ForeignFusionBatches
                        ELSE FusionBatches :
                  ExtractSignals(ei, fr, sd)
    \/ EvaluateAlerts
    \/ ResolveConflicts

Spec == Init /\ [][Next]_vars

-----------------------------------------------------------------------------
(* Calls of the grid, zone and path functions in any order *)

\* detections at the centres of the given cells, ids 1, 2, ...
DetectionsAt(cells) ==
    [k \in 1..Len(cells) |->
        [id |-> k, gps |-> NewCell(cells[k][1], cells[k][2]).center]]

\* detections on cell edges, on the edge of the field, outside it, without GPS
EdgeDetections ==
    << [id |-> 1, gps |-> FieldCenter],                            \* corner of four cells
       [id |-> 2, gps |-> [lat |-> 28614700, lng |-> 77208100]],   \* edge of rows 0 and 1
       [id |-> 3, gps |-> [lat |-> 28614800, lng |-> 77208400]],   \* edge of columns 1 and 2
       [id |-> 4, gps |-> [lat |-> 28612900, lng |-> 77209100]],   \* southern edge of the field
       [id |-> 5, gps |-> [lat |-> 28614900, lng |-> 77210000]],   \* north-east corner of the field
       [id |-> 6, gps |-> [lat |-> 28615900, lng |-> 77209000]],   \* north of the field
       [id |-> 7],
       [id |-> 8, gps |-> Null] >>

FieldDetectionLists ==
    { <<>>,
      DetectionsAt(<< <<3, 6>> >>),
      \* the four cells around the launch point, all at the same distance
      DetectionsAt(<< <<5, 5>>, <<4, 4>>, <<5, 4>>, <<4, 5>> >>),
      \* scattered cells, two of them side by side, two touching at a corner
      DetectionsAt(<< <<1, 9>>, <<0, 0>>, <<0, 9>>, <<5, 2>>, <<2, 7>>, <<6, 3>> >>),
      \* two detections in one cell, one in a neighbour cell between them
      DetectionsAt(<< <<2, 2>>, <<2, 3>>, <<2, 2>> >>),
      EdgeDetections }

\* the grid a call is given: a grid the caller holds, or (ref 0) the empty
\* array
GridRefs == 0..Len(grids)

GridAt(ref) == IF ref = 0 THEN NoGrid ELSE grids[ref]

CallMapDetectionsToGrid(dets) ==
    /\ Len(grids) < MaxGrids
    /\ LET r == MapDetectionsToGridIn(grids, dets)
       IN  /\ grids' = r.heap
           /\ result' = [ref |-> r.ref]
    /\ call' = [name |-> "mapDetectionsToGrid", detections |-> dets]
    /\ UNCHANGED pipelineVars
    /\ UNCHANGED debouncerVars
    /\ UNCHANGED panelVars

CallCalculateGridStats(ref) ==
    /\ call' = [name |-> "calculateGridStats", ref |-> ref]
    /\ result' = CalculateGridStatsOf(GridAt(ref))
    /\ UNCHANGED grids
    /\ UNCHANGED pipelineVars
    /\ UNCHANGED debouncerVars
    /\ UNCHANGED panelVars

CallIdentifyInfectedZones(ref) ==
    /\ call' = [name |-> "identifyInfectedZones", ref |-> ref]
    /\ result' = IdentifyInfectedZonesOf(GridAt(ref))
    /\ UNCHANGED grids
    /\ UNCHANGED pipelineVars
    /\ UNCHANGED debouncerVars
    /\ UNCHANGED panelVars

\* getZoneStatistics on the zones identifyInfectedZones returns for a grid
\* the caller holds
CallGetZoneStatistics(ref) ==
    /\ ref > 0
    /\ call' = [name |-> "getZoneStatistics", ref |-> ref,
                zones |-> IdentifyInfectedZonesOf(GridAt(ref)).zones]
    /\ result' = GetZoneStatisticsOf(IdentifyInfectedZonesOf(GridAt(ref)).zones)
    /\ UNCHANGED grids
    /\ UNCHANGED pipelineVars
    /\ UNCHANGED debouncerVars
    /\ UNCHANGED panelVars

CallGenerateSprayPath(ref) ==
    /\ call' = [name |-> "generateSprayPath", ref |-> ref]
    /\ result' = GenerateSprayPathOf(GridAt(ref))
    /\ UNCHANGED grids
    /\ UNCHANGED pipelineVars
    /\ UNCHANGED debouncerVars
    /\ UNCHANGED panelVars

CallGenerateSweepPath(ref) ==
    /\ call' = [name |-> "generateSweepPath", ref |-> ref]
    /\ result' = GenerateSweepPathOf(GridAt(ref))
    /\ UNCHANGED grids
    /\ UNCHANGED pipelineVars
    /\ UNCHANGED debouncerVars
    /\ UNCHANGED panelVars

\* signal snapshots handed to evaluateAlerts by a caller of the field functions
CallSignals ==
    { DefaultSignals,
      [DefaultSignals EXCEPT !.infectionPercentage = M(30), !.fusionSeverity = "high",
                             !.soilMoisture = M(15), !.infectionGrowthRate = M(M(3))] }

CallEvaluateAlerts(s) ==
    /\ call' = [name |-> "evaluateAlerts", signals |-> s]
    /\ result' = [alerts |-> EvaluateAlertsOf(s)]
    /\ UNCHANGED grids
    /\ UNCHANGED pipelineVars
    /\ UNCHANGED debouncerVars
    /\ UNCHANGED panelVars

CallResolveConflicts(list) ==
    /\ call' = [name |-> "resolveConflicts", alerts |-> list]
    /\ result' = [alerts |-> ResolveConflictsOf(list)]
    /\ UNCHANGED grids
    /\ UNCHANGED pipelineVars
    /\ UNCHANGED debouncerVars
    /\ UNCHANGED panelVars

InitField ==
    /\ DebouncerIdle
    /\ PipelineIdle
    /\ FieldIdle
    /\ PanelIdle

NextField ==
    \/ \E dets \in FieldDetectionLists : CallMapDetectionsToGrid(dets)
    \/ \E ref \in GridRefs : CallCalculateGridStats(ref)
    \/ \E ref \in GridRefs : CallIdentifyInfectedZones(ref)
    \/ \E ref \in GridRefs : CallGetZoneStatistics(ref)
    \/ \E ref \in GridRefs : CallGenerateSprayPath(ref)
    \/ \E ref \in GridRefs : CallGenerateSweepPath(ref)
    \/ \E s \in CallSignals : CallEvaluateAlerts(s)
    \/ \E s \in CallSignals : CallResolveConflicts(EvaluateAlertsOf(s))

SpecField == InitField /\ [][NextField]_vars

-----------------------------------------------------------------------------
(* performFusion *)

\* categorizeSensorData: the category of each reading
CategorizeSensorData(sd) ==
    [moisture    |-> IF sd.soil_moisture < M(30) THEN "dry"
                     ELSE IF sd.soil_moisture < M(50) THEN "moderate"
                     ELSE IF sd.soil_moisture < M(75) THEN "optimal"
                     ELSE "wet",
     temperature |-> IF sd.soil_temperature < M(18) THEN "cold"
                     ELSE IF sd.soil_temperature < M(28) THEN "optimal"
                     ELSE IF sd.soil_temperature < M(38) THEN "warm"
                     ELSE "hot",
     humidity    |-> IF sd.air_humidity < M(40) THEN "dry"
                     ELSE IF sd.air_humidity < M(70) THEN "moderate"
                     ELSE IF sd.air_humidity < M(85) THEN "humid"
                     ELSE "very_humid",
     ph          |-> IF sd.soil_ph < M(6) THEN "acidic"
                     ELSE IF sd.soil_ph < M(7) THEN "slightly_acidic"
                     ELSE IF sd.soil_ph < 7500 THEN "neutral"
                     ELSE "alkaline"]

LowerLetters ==
    {"a","b","c","d","e","f","g","h","i","j","k","l","m",
     "n","o","p","q","r","s","t","u","v","w","x","y","z"}

\* normalized.replace(/[^a-z]/g, '_')
RECURSIVE ReplaceNonLetters(_)
ReplaceNonLetters(s) ==
    IF Len(s) = 0 THEN ""
    ELSE LET c == SubSeq(s, 1, 1)
         IN  (IF c \in LowerLetters THEN c ELSE "_")
                \o ReplaceNonLetters(SubSeq(s, 2, Len(s)))

\* normalizeVisionClass (class names are given without surrounding blanks)
NormalizeVisionClass(className) ==
    LET normalized == ToLowerCase(className)
    IN  IF className = "" THEN "unknown"
        ELSE IF Includes(normalized, "blight") \/ Includes(normalized, "spot")
            THEN "spots"
        ELSE IF Includes(normalized, "yellow") \/ Includes(normalized, "chlorosis")
            THEN "yellow_leaves"
        ELSE IF Includes(normalized, "wilt") THEN "wilting"
        ELSE IF Includes(normalized, "curl") THEN "leaf_curl"
        ELSE IF Includes(normalized, "healthy") \/ Includes(normalized, "normal")
            THEN "healthy"
        ELSE IF Includes(normalized, "brown") THEN "browning"
        ELSE IF Includes(normalized, "root") THEN "root_issues"
        ELSE ReplaceNonLetters(normalized)

\* the fusion rules: vision patterns, sensor conditions (a condition that a
\* rule does not state is missing from its record), diagnosis, confidence in
\* thousandths, severity
FUSION_RULES ==
    << [id |-> "drought_stress",
        vision_pattern |-> {"yellow_leaves", "wilting", "leaf_curl"},
        sensor_conditions |-> [moisture |-> {"dry"},
                               temperature |-> {"optimal", "warm", "hot"}],
        refined_diagnosis |-> "Drought Stress", confidence |-> 950,
        severity |-> "high"],
       [id |-> "fungal_infection_wet",
        vision_pattern |-> {"yellow_leaves", "spots", "blight"},
        sensor_conditions |-> [moisture |-> {"optimal", "wet"},
                               humidity |-> {"humid", "very_humid"}],
        refined_diagnosis |-> "Fungal Infection (High Humidity)", confidence |-> 900,
        severity |-> "high"],
       [id |-> "nutrient_deficiency",
        vision_pattern |-> {"yellow_leaves", "discoloration"},
        sensor_conditions |-> [moisture |-> {"moderate", "optimal"},
                               ph |-> {"acidic", "alkaline"}],
        refined_diagnosis |-> "Nutrient Deficiency (pH imbalance)", confidence |-> 850,
        severity |-> "medium"],
       [id |-> "heat_stress",
        vision_pattern |-> {"wilting", "leaf_curl", "browning"},
        sensor_conditions |-> [temperature |-> {"hot"},
                               moisture |-> {"dry", "moderate"}],
        refined_diagnosis |-> "Heat Stress", confidence |-> 920,
        severity |-> "high"],
       [id |-> "preventive_risk_high_humidity",
        vision_pattern |-> {"healthy"},
        sensor_conditions |-> [humidity |-> {"very_humid"}, moisture |-> {"wet"}],
        refined_diagnosis |-> "High Disease Risk (Preventive Alert)",
        confidence |-> 750, severity |-> "low"],
       [id |-> "confirmed_healthy",
        vision_pattern |-> {"healthy"},
        sensor_conditions |-> [moisture |-> {"moderate", "optimal"},
                               temperature |-> {"optimal"},
                               humidity |-> {"moderate", "humid"}],
        refined_diagnosis |-> "Healthy (Confirmed)", confidence |-> 980,
        severity |-> "none"],
       [id |-> "overwatering",
        vision_pattern |-> {"yellow_leaves", "wilting", "root_issues"},
        sensor_conditions |-> [moisture |-> {"wet"}],
        refined_diagnosis |-> "Overwatering / Root Rot Risk", confidence |-> 880,
        severity |-> "high"],
       [id |-> "cold_stress",
        vision_pattern |-> {"discoloration", "stunted_growth"},
        sensor_conditions |-> [temperature |-> {"cold"}],
        refined_diagnosis |-> "Cold Stress", confidence |-> 800,
        severity |-> "medium"] >>

\* matchSensorCondition on one condition of a rule: a condition the rule does
\* not state matches
MatchSensorCondition(actual, conditions, f) ==
    f \notin DOMAIN conditions \/ actual \in conditions[f]

\* the filter callback of performFusion
FusionRuleMatches(rule, visionPattern, categories) ==
    /\ visionPattern \in rule.vision_pattern
    /\ MatchSensorCondition(categories.moisture, rule.sensor_conditions, "moisture")
    /\ MatchSensorCondition(categories.temperature, rule.sensor_conditions, "temperature")
    /\ MatchSensorCondition(categories.humidity, rule.sensor_conditions, "humidity")
    /\ MatchSensorCondition(categories.ph, rule.sensor_conditions, "ph")

\* class_name || className || class || label || 'unknown'
ClassNameOf(visionDetection) ==
    StrOr(visionDetection, "class_name",
          StrOr(visionDetection, "className",
                StrOr(visionDetection, "class",
                      StrOr(visionDetection, "label", "unknown"))))

\* performFusion: the diagnosis of the matched rule of highest confidence (the
\* first one of several, the sort being stable), the uncertain diagnosis when
\* no rule matches
PerformFusionOf(visionDetection, sensors) ==
    IF visionDetection = Null THEN [status |-> "no_vision_data", diagnosis |-> Null]
    ELSE IF sensors = Null
    THEN [diagnosis |-> [type |-> ClassNameOf(visionDetection),
                         confidence |-> NumOr(visionDetection, "confidence", 500),
                         source |-> "vision_only"]]
    ELSE LET categories    == CategorizeSensorData(sensors)
             visionPattern == NormalizeVisionClass(ClassNameOf(visionDetection))
             matched == { i \in 1..Len(FUSION_RULES) :
                             FusionRuleMatches(FUSION_RULES[i], visionPattern, categories) }
         IN  IF matched # {}
             THEN LET best == CHOOSE i \in matched : \A j \in matched :
                                 \/ FUSION_RULES[i].confidence > FUSION_RULES[j].confidence
                                 \/ /\ FUSION_RULES[i].confidence = FUSION_RULES[j].confidence
                                    /\ i <= j
                  IN  FusionResult(FUSION_RULES[best].refined_diagnosis,
                                   FUSION_RULES[best].severity,
                                   FUSION_RULES[best].confidence)
             ELSE FusionResult("Uncertain - Multiple Factors", "unknown", 500)

-----------------------------------------------------------------------------
(* calculateEconomicImpact *)

\* What calculateROI and calculateFinancialLoss compute depends on
\* ECONOMIC_CONFIG; an outcome gives the two amounts the alert rules are about:
\* the per-application ROI multiplier in thousandths and the untreated loss.
\* With this one, a ratio of 1.5 and a loss of 150000, the economic rules have
\* their thresholds passed.
EconomicOutcomes ==
    { [roiMultiplier |-> 1500, financialLossUntreated |-> 150000] }

\* calculateEconomicImpact: the properties of the returned object that carry
\* the outcome, under the names the code gives them
CalculateEconomicImpactOf(gs, outcome) ==
    IF gs = Null \/ (Has(gs, "infectedCount") /\ gs.infectedCount = 0)
    THEN [hasInfection |-> FALSE, areas |-> Null, yieldData |-> Null,
          financialData |-> Null, interventionCosts |-> Null, roi |-> Null]
    ELSE [hasInfection |-> TRUE,
          financialData |->
              [financialLossUntreated |-> outcome.financialLossUntreated],
          roi |-> [perApplication |-> [roiMultiplier |-> outcome.roiMultiplier]]]

-----------------------------------------------------------------------------
(* The alert panel (AlertsDecisionPanel) under the dashboard.  React runs an *)
(* effect after a render in which one of its dependencies changed, the       *)
(* effects of a component in the order of their declaration, and renders     *)
(* again when an effect has set state.  pending tells what is due: the       *)
(* panel's evaluation effect, its delivery effect, and the renders that      *)
(* bring the panel new gridStats, new economicImpact, or a new               *)
(* onAlertsUpdate function.                                                  *)

MaxFeed      == 2   \* detections that arrive
MaxTimeSteps == 1   \* times the clock is advanced

FusionBatchSize   == 10      \* detections.slice(0, 10)
RefreshIntervalMs == 10000   \* setInterval(..., 10000)

\* detections as they arrive: with a class name of their own, and in the
\* shape of a detection record, whose class names are in its list
FeedDetections ==
    { [class_name |-> "Leaf Blight", confidence |-> 900,
       gps |-> NewCell(3, 6).center],
      [detections |-> <<[class_name |-> "Leaf Blight", confidence |-> 900]>>,
       gps |-> NewCell(5, 2).center] }

\* getSensorData(): readings the simulator produces
PanelSensorSnapshots ==
    { [soil_moisture |-> M(45), soil_temperature |-> M(25), air_humidity |-> M(60),
       soil_ph |-> 6500],
      [soil_moisture |-> M(80), soil_temperature |-> M(25), air_humidity |-> M(86),
       soil_ph |-> 6500] }

\* the fusionResults memo: detections.slice(0, 10).map(performFusion)
FusionResultsMemo(dets, sd) ==
    IF Len(dets) = 0 THEN Arr(<<>>)
    ELSE LET n == IF Len(dets) < FusionBatchSize THEN Len(dets) ELSE FusionBatchSize
         IN  Arr([k \in 1..n |-> PerformFusionOf(dets[k], sd)])

\* grid stats handed to the panel: the object calculateGridStats returns for
\* the detections, and stats that carry the infectionPercentage property
\* extractSignals reads
PanelGridStats(dets) ==
    { CalculateGridStatsOf(MapDetectionsToGridOf(dets)) }
        \cup { [infectionPercentage |-> p, infectedCount |-> p \div 1000,
                totalCells |-> 100] : p \in {M(12), M(20)} }

\* a plausible slip: shouldShowAlert called for its effect only, the list kept
RECURSIVE FilterShownKeepAll(_, _, _, _, _)
FilterShownKeepAll(list, i, map, t, w) ==
    IF i > Len(list) THEN [shown |-> <<>>, map |-> map]
    ELSE LET key  == AlertKey(list[i])
             ok   == DebounceAllows(map, key, t, w)
             rest == FilterShownKeepAll(list, i + 1, DebounceStore(map, key, t, ok), t, w)
         IN  [shown |-> <<list[i]>> \o rest.shown, map |-> rest.map]

\* newAlerts.filter(alert => alertDebouncer.shouldShowAlert(alert)) from the
\* i-th alert on: the alerts kept and the debouncer's map afterwards
RECURSIVE FilterShown(_, _, _, _, _)
FilterShown(list, i, map, t, w) ==
    IF i > Len(list) THEN [shown |-> <<>>, map |-> map]
    ELSE LET key  == AlertKey(list[i])
             ok   == DebounceAllows(map, key, t, w)
             rest == FilterShown(list, i + 1, DebounceStore(map, key, t, ok), t, w)
         IN  [shown |-> (IF ok THEN <<list[i]>> ELSE <<>>) \o rest.shown,
              map |-> rest.map]

\* a plausible slip: the debounce filter applied before resolveConflicts
EvaluationCycleDebounceFirst(dets, gs, ei, fr, sd, map, t, w) ==
    LET s == ExtractSignalsOf(dets, gs, ei, fr, sd)
    IN  IF s = Thrown THEN Thrown
        ELSE LET triggered == EvaluateAlertsOf(s)
                 filtered  == FilterShown(triggered, 1, map, t, w)
             IN  [signals |-> s, triggered |-> triggered,
                  resolved |-> ResolveConflictsOf(triggered),
                  emitted |-> ResolveConflictsOf(filtered.shown),
                  map |-> filtered.map]

\* the body of the evaluation effect after its guard: extractSignals,
\* evaluateAlerts, resolveConflicts, the debounce filter
EvaluationCycleOf(dets, gs, ei, fr, sd, map, t, w) ==
    LET s == ExtractSignalsOf(dets, gs, ei, fr, sd)
    IN  IF s = Thrown THEN Thrown
        ELSE LET triggered == EvaluateAlertsOf(s)
                 kept      == ResolveConflictsOf(triggered)
                 filtered  == FilterShown(kept, 1, map, t, w)
             IN  [signals |-> s, triggered |-> triggered, resolved |-> kept,
                  emitted |-> filtered.shown, map |-> filtered.map]

\* keys of the alerts of a list
Keys(list) == { AlertKey(list[i]) : i \in 1..Len(list) }

\* the record of emissions after a cycle at time t: for each key, when it was
\* in the panel's alerts last, whether its rule has triggered in every cycle
\* since, and whether the debounce filter has dropped it since
EmissionsAfter(before, triggered, survivors, emitted, t) ==
    [k \in (DOMAIN before) \cup Keys(emitted) |->
        IF k \in Keys(emitted) THEN [at |-> t, held |-> TRUE, suppressed |-> FALSE]
        ELSE [at |-> before[k].at,
              held |-> before[k].held /\ k \in Keys(triggered),
              suppressed |-> before[k].suppressed \/ k \in Keys(survivors)]]

\* the effects of the panel that are due have run
EffectsDone ==
    /\ ~pending.evaluate
    /\ ~pending.deliver

\* the effects of the inputs' last change have run
Settled ==
    /\ ~pending.gridStats
    /\ ~pending.economicImpact
    /\ ~pending.evaluate

\* alertsData.map(alert => alert.action).filter(Boolean): every rule has an
\* action text, which its rule id stands for
RecommendationsOf(alertsData) == [i \in 1..Len(alertsData) |-> alertsData[i].ruleId]

\* onChildAdded, once the effects of the previous change have run: the
\* detection is put in front; the dashboard renders, the panel recomputes its
\* fusion results with a fresh sensor reading
OnChildAdded(d, sd) ==
    /\ Settled
    /\ Len(feed) < MaxFeed
    /\ feed' = <<[id |-> Len(feed) + 1] @@ d>> \o feed
    /\ memoFusion' = FusionResultsMemo(feed', sd)
    /\ pending' = [pending EXCEPT !.gridStats = TRUE, !.evaluate = TRUE,
                                  !.deliver = TRUE]
    /\ UNCHANGED <<panelProps, panelAlerts, dashboard, cycle, emissions>>
    /\ UNCHANGED debouncerVars
    /\ UNCHANGED pipelineVars
    /\ UNCHANGED fieldVars

\* handleGridStatsCalculated, called by the effect of the path planning
\* panel, and the render that follows
GridStatsCalculated(gs) ==
    /\ pending.gridStats
    /\ EffectsDone
    /\ panelProps' = [panelProps EXCEPT !.gridStats = gs]
    /\ pending' = [pending EXCEPT !.gridStats = FALSE, !.economicImpact = TRUE,
                                  !.evaluate = TRUE, !.deliver = TRUE,
                                  !.render = FALSE]
    /\ UNCHANGED <<feed, memoFusion, panelAlerts, dashboard, cycle, emissions>>
    /\ UNCHANGED debouncerVars
    /\ UNCHANGED pipelineVars
    /\ UNCHANGED fieldVars

\* the dashboard's effect on gridStats, and the render that follows
EconomicImpactCalculated(outcome) ==
    /\ pending.economicImpact
    /\ EffectsDone
    /\ ~pending.gridStats
    /\ IF panelProps.gridStats # Null
       THEN /\ panelProps' =
                  [panelProps EXCEPT !.economicImpact =
                      CalculateEconomicImpactOf(panelProps.gridStats, outcome)]
            /\ pending' = [pending EXCEPT !.economicImpact = FALSE,
                                          !.evaluate = TRUE, !.deliver = TRUE,
                                          !.render = FALSE]
       ELSE /\ pending' = [pending EXCEPT !.economicImpact = FALSE]
            /\ UNCHANGED panelProps
    /\ UNCHANGED <<feed, memoFusion, panelAlerts, dashboard, cycle, emissions>>
    /\ UNCHANGED debouncerVars
    /\ UNCHANGED pipelineVars
    /\ UNCHANGED fieldVars

\* the evaluation effect of the panel, with the sensor reading it takes
EvaluateEffect(sd) ==
    /\ pending.evaluate
    /\ \E c \in { IF panelProps.gridStats = Null THEN Null
                   ELSE EvaluationCycleOf(feed, panelProps.gridStats,
                                          panelProps.economicImpact, memoFusion, sd,
                                          recentAlerts, now, windowMs) } :
           IF c = Null \/ c = Thrown
           THEN /\ pending' = [pending EXCEPT !.evaluate = FALSE]
                /\ UNCHANGED <<panelAlerts, recentAlerts, cycle, emissions>>
           ELSE /\ panelAlerts' = c.emitted
                /\ recentAlerts' = c.map
                /\ cycle' = [ran |-> TRUE, at |-> now, detections |-> feed,
                             fusionResults |-> memoFusion,
                             gridStats |-> panelProps.gridStats,
                             economicImpact |-> panelProps.economicImpact,
                             signals |-> c.signals, triggered |-> c.triggered,
                             resolved |-> c.resolved, emitted |-> c.emitted,
                             mapBefore |-> recentAlerts, before |-> emissions]
                /\ emissions' = EmissionsAfter(emissions, c.triggered, c.resolved, c.emitted,
                                                now)
                /\ pending' = [pending EXCEPT !.evaluate = FALSE, !.deliver = TRUE]
    /\ UNCHANGED <<feed, memoFusion, panelProps, dashboard>>
    /\ UNCHANGED <<windowMs, now, calls>>
    /\ UNCHANGED pipelineVars
    /\ UNCHANGED fieldVars

\* the delivery effect of the panel; onAlertsUpdate is handleAlertsUpdate of
\* the dashboard, whose setRecommendations is given a new array every time
DeliverAlerts ==
    /\ pending.deliver
    /\ ~pending.evaluate
    /\ IF Len(panelAlerts) > 0
       THEN /\ dashboard' = [alerts |-> panelAlerts,
                             recommendations |-> RecommendationsOf(panelAlerts)]
            /\ pending' = [pending EXCEPT !.deliver = FALSE, !.render = TRUE]
       ELSE /\ pending' = [pending EXCEPT !.deliver = FALSE]
            /\ UNCHANGED dashboard
    /\ UNCHANGED <<feed, memoFusion, panelProps, panelAlerts, cycle, emissions>>
    /\ UNCHANGED debouncerVars
    /\ UNCHANGED pipelineVars
    /\ UNCHANGED fieldVars

\* the dashboard renders after its state was set: handleAlertsUpdate is a new
\* function, the panel is rendered with it and its delivery effect is due
DashboardRender ==
    /\ pending.render
    /\ EffectsDone
    /\ Settled
    /\ pending' = [pending EXCEPT !.render = FALSE, !.deliver = TRUE]
    /\ UNCHANGED <<feed, memoFusion, panelProps, panelAlerts, dashboard, cycle,
                   emissions>>
    /\ UNCHANGED debouncerVars
    /\ UNCHANGED pipelineVars
    /\ UNCHANGED fieldVars

\* a tick of the auto-refresh interval: setAlerts(prev => [...prev]) gives the
\* panel a new array with the same alerts
AutoRefresh ==
    /\ Settled
    /\ now > RefreshIntervalMs
    /\ panelAlerts' = panelAlerts
    /\ pending' = [pending EXCEPT !.deliver = TRUE]
    /\ UNCHANGED <<feed, memoFusion, panelProps, dashboard, cycle, emissions>>
    /\ UNCHANGED debouncerVars
    /\ UNCHANGED pipelineVars
    /\ UNCHANGED fieldVars

\* how often the clock was advanced to reach time t
TimeSteps(t) == (t - 1) \div 30000

\* Date.now() advances by the debounce window or by a millisecond more; the
\* effects of a change run within the millisecond
TimePasses(dt) ==
    /\ Settled
    /\ TimeSteps(now) < MaxTimeSteps
    /\ now' = now + dt
    /\ UNCHANGED <<recentAlerts, windowMs, calls>>
    /\ UNCHANGED panelVars
    /\ UNCHANGED pipelineVars
    /\ UNCHANGED fieldVars

InitPanel ==
    /\ DebouncerIdle
    /\ PipelineIdle
    /\ FieldIdle
    /\ PanelIdle

NextPanel ==
    \/ \E d \in FeedDetections, sd \in PanelSensorSnapshots : OnChildAdded(d, sd)
    \/ /\ pending.gridStats
       /\ \E gs \in PanelGridStats(feed) : GridStatsCalculated(gs)
    \/ /\ pending.economicImpact
       /\ \E outcome \in EconomicOutcomes : EconomicImpactCalculated(outcome)
    \/ /\ pending.evaluate
       /\ \E sd \in PanelSensorSnapshots : EvaluateEffect(sd)
    \/ DeliverAlerts
    \/ DashboardRender
    \/ AutoRefresh
    \/ \E dt \in {30000, 30001} : TimePasses(dt)

SpecPanel == InitPanel /\ [][NextPanel]_vars

\* React runs the delivery effect and the render of the dashboard when they
\* are due
SpecPanelFair ==
    /\ SpecPanel
    /\ WF_vars(DeliverAlerts)
    /\ WF_vars(DashboardRender)

-----------------------------------------------------------------------------
(* Claims about the debouncer *)

\* indices of the observed calls made for one key
CallsOf(key) == { i \in 1..Len(calls) : calls[i].key = key }

FirstCallOf(key) == CHOOSE i \in CallsOf(key) : \A j \in CallsOf(key) : i <= j

DebouncedKeys == { AlertKey(a) : a \in DebouncedAlerts }

\* C1: for one key, the first shouldShowAlert call returns true, every call
\* made before windowMs has elapsed since that first call returns false, and
\* the earliest call made after windowMs has elapsed since it returns true.
C1_FirstTrueThenFalseThenTrue ==
    \A key \in DebouncedKeys :
        CallsOf(key) # {} =>
            LET f == FirstCallOf(key)
            IN  /\ calls[f].shown
                /\ \A j \in CallsOf(key) :
                       (j > f /\ calls[j].at - calls[f].at < windowMs)
                           => ~calls[j].shown
                /\ \A j \in CallsOf(key) :
                       (/\ calls[j].at - calls[f].at > windowMs
                        /\ \A i \in CallsOf(key) :
                               i < j => calls[i].at - calls[f].at <= windowMs)
                           => calls[j].shown

\* a key was called three times: shown, suppressed inside the window, shown
\* again after the window
C1_Witness ==
    \E key \in DebouncedKeys :
        \E i, j, k \in CallsOf(key) :
            /\ i = FirstCallOf(key) /\ i < j /\ j < k
            /\ calls[i].shown
            /\ calls[j].at - calls[i].at < windowMs /\ ~calls[j].shown
            /\ calls[k].at - calls[i].at > windowMs /\ calls[k].shown

\* indices of the calls for one key that returned true
ShownCallsOf(key) == { i \in CallsOf(key) : calls[i].shown }

\* C2: the window of a key is measured from that key's last allowed emission:
\* the stored time of a key is the time of its last call that returned true
\* (a suppressed call leaves it alone, a key never shown has no entry), a call
\* returns true exactly when no earlier shown call of the same key lies within
\* windowMs, so two shown calls of one key are more than windowMs apart and
\* the calls of other keys play no part.
C2_WindowFromLastEmission ==
    \A key \in DebouncedKeys :
        /\ IF ShownCallsOf(key) = {}
           THEN key \notin DOMAIN recentAlerts
           ELSE /\ key \in DOMAIN recentAlerts
                /\ LET last == CHOOSE i \in ShownCallsOf(key) :
                                   \A j \in ShownCallsOf(key) : j <= i
                   IN  recentAlerts[key] = calls[last].at
        /\ \A i, j \in ShownCallsOf(key) :
               i < j => calls[j].at - calls[i].at > windowMs
        /\ \A j \in CallsOf(key) :
               calls[j].shown <=>
                   \A i \in ShownCallsOf(key) :
                       i < j => calls[j].at - calls[i].at > windowMs

\* one key was suppressed after time had moved on and shown again later,
\* while the other key was shown in between
C2_Witness ==
    \E key \in DebouncedKeys, other \in DebouncedKeys :
        /\ other # key
        /\ \E i, j, k \in CallsOf(key) :
               /\ i < j /\ j < k
               /\ calls[i].shown /\ ~calls[j].shown /\ calls[k].shown
               /\ calls[j].at > calls[i].at
               /\ \E o \in ShownCallsOf(other) : i < o /\ o < k

-----------------------------------------------------------------------------
(* Claims about resolveConflicts and evaluateAlerts *)

\* extractSignals has returned or thrown in this pass
AfterExtract ==
    /\ entry \in {"mapDetectionsToGrid", "extractSignals"}
    /\ pc \in {"threw", "evaluateAlerts", "resolveConflicts", "done"}

\* evaluateAlerts has returned: alerts is its result for signals
AfterEvaluate ==
    /\ entry \in {"mapDetectionsToGrid", "extractSignals", "evaluateAlerts"}
    /\ pc \in {"resolveConflicts", "done"}

\* resolveConflicts has returned: resolved is its result for alerts
AfterResolve == pc = "done"

RuleIdsIn(list) == { list[i].ruleId : i \in 1..Len(list) }

InList(list) == { list[i] : i \in 1..Len(list) }

SortedByPriority(list) ==
    \A i, j \in 1..Len(list) : i < j => list[i].priority <= list[j].priority

\* at most one survivor per category, at most four in all, and every category
\* that has candidates is represented by a candidate of least priority number
OneMinimalSurvivorPerCategory ==
    /\ Len(resolved) <= 4
    /\ \A i, j \in 1..Len(resolved) :
           i # j => CategoryOf(resolved[i]) # CategoryOf(resolved[j])
    /\ \A a \in InList(resolved) :
           /\ a \in InList(alerts)
           /\ \A b \in InList(alerts) :
                  CategoryOf(b) = CategoryOf(a) => a.priority <= b.priority
    /\ \A b \in InList(alerts) :
           \E a \in InList(resolved) : CategoryOf(a) = CategoryOf(b)

\* C3 as stated: for every list of candidate alerts resolveConflicts returns at
\* most one alert per category, so at most four, and the survivor of a category
\* is the candidate of that category with the smallest priority number.
C3_Original_AnyList == AfterResolve => OneMinimalSurvivorPerCategory

\* C3 amended: the same for every list that is sorted in ascending order of
\* priority number, which is how evaluateAlerts returns it.
C3_SortedListMinimalSurvivor ==
    (AfterResolve /\ SortedByPriority(alerts)) => OneMinimalSurvivorPerCategory

\* a sorted list with two candidates of one category and different priorities
\* was resolved
C3_Witness ==
    /\ AfterResolve
    /\ SortedByPriority(alerts)
    /\ \E a, b \in InList(alerts) :
           CategoryOf(a) = CategoryOf(b) /\ a.priority < b.priority
    /\ Len(resolved) < Len(alerts)

\* a snapshot as the data model describes it: every signal is there
WellFormedSignals(s) == s # Null /\ DOMAIN DefaultSignals \subseteq DOMAIN s

\* "diagnosis mentions kw" of the rule catalog
CatalogMentions(s, kw) == Includes(ToLowerCase(s.fusionDiagnosis), kw)

\* the trigger column of the rule catalog, row by row
CatalogTrigger(id, s) ==
    CASE id = "RULE_001" ->  \* Critical Infection Outbreak
            s.infectionPercentage > M(25) /\ s.fusionSeverity \in {"high", "medium"}
      [] id = "RULE_003" ->  \* Critical Drought Stress
            s.soilMoisture < M(20) \/ CatalogMentions(s, "drought")
      [] id = "RULE_007" ->  \* High Economic Risk
            s.potentialLoss > 100000 /\ s.infectionPercentage > M(15)
      [] id = "RULE_008" ->  \* Rapid Infection Growth
            s.infectionGrowthRate > M(M(2))
      [] id = "RULE_002" ->  \* Moderate Infection Warning
            /\ M(10) <= s.infectionPercentage /\ s.infectionPercentage <= M(25)
            /\ s.fusionSeverity # "none"
      [] id = "RULE_004" ->  \* Heat Stress Alert
            s.soilTemperature > M(35) \/ CatalogMentions(s, "heat")
      [] id = "RULE_005" ->  \* Fungal Outbreak Risk
            \/ s.airHumidity > M(85) /\ s.soilMoisture > M(70)
            \/ CatalogMentions(s, "fungal")
      [] id = "RULE_006" ->  \* Low ROI Warning
            /\ 0 < s.roiRatio /\ s.roiRatio < M(2)
            /\ s.infectionPercentage < M(15)
      [] id = "RULE_010" ->  \* Early Detection Preventive
            /\ M(3) <= s.infectionPercentage /\ s.infectionPercentage < M(10)
            /\ s.fusionConfidence > 700
      [] id = "RULE_009" ->  \* System Healthy
            /\ s.infectionPercentage < M(5)
            /\ M(40) <= s.soilMoisture /\ s.soilMoisture <= M(70)
            /\ M(20) <= s.soilTemperature /\ s.soilTemperature <= M(32)
            /\ CatalogMentions(s, "healthy")

\* the priority and type columns of the rule catalog
CatalogPriority(id) ==
    CASE id \in {"RULE_001", "RULE_003", "RULE_007", "RULE_008"} -> 1
      [] id \in {"RULE_002", "RULE_004", "RULE_005", "RULE_006"} -> 2
      [] id = "RULE_010" -> 4
      [] id = "RULE_009" -> 5

CatalogType(id) ==
    CASE id \in {"RULE_001", "RULE_003", "RULE_007", "RULE_008"} -> "CRITICAL"
      [] id \in {"RULE_002", "RULE_004", "RULE_005", "RULE_006"} -> "WARNING"
      [] id \in {"RULE_010", "RULE_009"} -> "INFO"

\* C4: for every signal snapshot evaluateAlerts returns an alert of a rule
\* exactly when the rule's trigger condition in the catalog holds, once, and
\* with the priority and type the catalog lists for the rule.
C4_AlertsMatchCatalog ==
    (AfterEvaluate /\ WellFormedSignals(signals)) =>
        /\ \A id \in RuleIds : (id \in RuleIdsIn(alerts)) <=> CatalogTrigger(id, signals)
        /\ \A i, j \in 1..Len(alerts) : i # j => alerts[i].ruleId # alerts[j].ruleId
        /\ \A a \in InList(alerts) :
               a.priority = CatalogPriority(a.ruleId) /\ a.type = CatalogType(a.ruleId)

\* a snapshot on the upper boundary of Moderate Infection Warning was
\* evaluated: exactly 25 % with a fusion severity, warning but no outbreak
C4_Witness ==
    /\ AfterEvaluate /\ WellFormedSignals(signals)
    /\ signals.infectionPercentage = M(25)
    /\ signals.fusionSeverity = "high"
    /\ "RULE_002" \in RuleIdsIn(alerts)
    /\ "RULE_001" \notin RuleIdsIn(alerts)

RuleIndex(id) == CHOOSE i \in 1..Len(DECISION_RULES) : DECISION_RULES[i].id = id

\* C5: the list evaluateAlerts returns is in ascending order of priority
\* number, and alerts of equal priority are in rule-table order.
C5_SortedAscendingStable ==
    AfterEvaluate =>
        \A i, j \in 1..Len(alerts) :
            i < j =>
                /\ alerts[i].priority <= alerts[j].priority
                /\ alerts[i].priority = alerts[j].priority
                       => RuleIndex(alerts[i].ruleId) < RuleIndex(alerts[j].ruleId)

\* a list with alerts of equal and of different priorities was returned
C5_Witness ==
    /\ AfterEvaluate
    /\ \E i, j, k \in 1..Len(alerts) :
           /\ i < j /\ j < k
           /\ alerts[i].priority = alerts[j].priority
           /\ alerts[j].priority < alerts[k].priority

\* C6: when the condition or the message function of a rule throws, that rule
\* gives no alert and the other rules are evaluated all the same: the result
\* holds exactly one alert for every rule whose condition holds and whose
\* message function does not throw.
C6_ThrowingRuleSkippedAlone ==
    AfterEvaluate =>
        /\ \A i \in 1..Len(DECISION_RULES) :
               LET rule == DECISION_RULES[i]
               IN  (rule.id \in RuleIdsIn(alerts)) <=>
                       /\ signals # Null
                       /\ RuleCondition(rule.id, signals)
                       /\ ~MessageThrows(rule, signals)
        /\ \A i, j \in 1..Len(alerts) : i # j => alerts[i].ruleId # alerts[j].ruleId

\* a rule threw in its message function, and a rule after it in the table
\* still produced its alert
C6_Witness ==
    /\ AfterEvaluate
    /\ signals # Null
    /\ \E i, j \in 1..Len(DECISION_RULES) :
           /\ i < j
           /\ RuleCondition(DECISION_RULES[i].id, signals)
           /\ MessageThrows(DECISION_RULES[i], signals)
           /\ DECISION_RULES[j].id \in RuleIdsIn(alerts)

-----------------------------------------------------------------------------
(* Claims about extractSignals and the pipeline from detections to alerts *)

\* extractSignals has returned a snapshot (it did not throw)
SignalsExtracted == AfterExtract /\ pc # "threw"

\* the pass went from a detection list through mapDetectionsToGrid and
\* calculateGridStats to extractSignals and evaluateAlerts
PipelineEvaluated == entry = "mapDetectionsToGrid" /\ AfterEvaluate

\* C7: given the GridStats of calculateGridStats, the infection percentage of
\* the signal snapshot equals the infected percentage of that GridStats.
C7_InfectionEqualsInfectedPercentage ==
    (entry = "mapDetectionsToGrid" /\ SignalsExtracted) =>
        signals.infectionPercentage = gridStats.infectedPercentage

\* the most recent fusion result of the batch has severity "high"
LatestFusionSeverityHigh ==
    /\ fusionResults # Null
    /\ Len(fusionResults.items) > 0
    /\ LET latest == fusionResults.items[Len(fusionResults.items)]
       IN  /\ Has(latest, "diagnosis") /\ latest.diagnosis # Null
           /\ Has(latest.diagnosis, "severity")
           /\ latest.diagnosis.severity = "high"

\* the scenario of C8: 100 cells, 25 of them infected, severity "high"
QuarterInfectedHighSeverity ==
    /\ PipelineEvaluated
    /\ gridStats.totalCells = 100
    /\ gridStats.infectedCount = 25
    /\ LatestFusionSeverityHigh

C9_DroughtBelowTwenty ==
    (/\ AfterEvaluate /\ entry \in {"mapDetectionsToGrid", "extractSignals"}
     /\ sensorData # Null /\ Has(sensorData, "soil_moisture")
     /\ sensorData.soil_moisture < M(20))
        => "RULE_003" \in RuleIdsIn(alerts)

\* the last element of a fusion batch is null (not a missing or empty batch)
NullFusionElement ==
    /\ fusionResults # Null
    /\ Len(fusionResults.items) > 0
    /\ fusionResults.items[Len(fusionResults.items)] = Null

\* C10: extractSignals does not throw on null or missing inputs and returns a
\* complete snapshot in which every signal whose source is absent has its
\* default: infection 0 and growth rate 0 without grid stats, ROI 0 and loss 0
\* without economic impact, severity none, diagnosis Unknown and confidence 0
\* without fusion results, moisture 50, temperature 25 and humidity 60 without
\* sensor data.
C10_NullSafeDefaults ==
    AfterExtract =>
        /\ ~NullFusionElement => pc # "threw"
        /\ pc # "threw" =>
               /\ WellFormedSignals(signals)
               /\ gridStats = Null =>
                      /\ signals.infectionPercentage = 0
                      /\ signals.infectionGrowthRate = 0
               /\ economicImpact = Null =>
                      signals.roiRatio = 0 /\ signals.potentialLoss = 0
               /\ (fusionResults = Null \/ fusionResults = Arr(<<>>)) =>
                      /\ signals.fusionSeverity = "none"
                      /\ signals.fusionDiagnosis = "Unknown"
                      /\ signals.fusionConfidence = 0
               /\ sensorData = Null =>
                      /\ signals.soilMoisture = M(50)
                      /\ signals.soilTemperature = M(25)
                      /\ signals.airHumidity = M(60)

\* extractSignals returned the default snapshot for four null sources
C10_Witness ==
    /\ SignalsExtracted
    /\ gridStats = Null /\ economicImpact = Null
    /\ fusionResults = Null /\ sensorData = Null
    /\ signals = DefaultSignals

-----------------------------------------------------------------------------
(* Claims about the path planner *)

\* the last call was function name on a grid
Called(name) == call.name = name

\* ids of the infected cells of a grid
InfectedIds(g) ==
    { g.cells[p[1]][p[2]].id :
        p \in { q \in GridPositions(g) : g.cells[q[1]][q[2]].infected } }

\* the grid the last call was given
CalledGrid == GridAt(call.ref)

\* C11: for every grid with at least one infected cell, generateSprayPath
\* returns pathExists true, startPoint and endPoint both the launch point, and
\* waypoints that are a permutation of the infected cells: every infected cell
\* exactly once, no healthy cell.
C11_SprayPathIsPermutation ==
    (Called("generateSprayPath") /\ InfectedIds(CalledGrid) # {}) =>
        /\ result.pathExists
        /\ result.startPoint = FieldCenter
        /\ result.endPoint = result.startPoint
        /\ \A id \in InfectedIds(CalledGrid) :
              Cardinality({ i \in 1..Len(result.waypoints) :
                              result.waypoints[i].cellId = id }) = 1
        /\ \A i \in 1..Len(result.waypoints) :
              result.waypoints[i].cellId \in InfectedIds(CalledGrid)

C11_Witness ==
    /\ Called("generateSprayPath")
    /\ Cardinality(InfectedIds(CalledGrid)) >= 6
    /\ Len(result.waypoints) = Cardinality(InfectedIds(CalledGrid))

\* C12: generateSprayPath returns pathExists false exactly when the grid has
\* no infected cell; the result then has no waypoints, totalDistance 0 and
\* estimatedTime 0; no exception is raised.
C12_NoPathIffNoInfectedCell ==
    Called("generateSprayPath") =>
        /\ result # Thrown
        /\ (~result.pathExists) <=> (InfectedIds(CalledGrid) = {})
        /\ (~result.pathExists) =>
              /\ result.waypoints = <<>>
              /\ result.totalDistance = 0
              /\ result.estimatedTime = 0

C12_Witness ==
    /\ Called("generateSprayPath")
    /\ call.ref > 0
    /\ InfectedIds(CalledGrid) = {}
    /\ ~result.pathExists

\* length of the closed tour launch point -> waypoints in order -> launch point
RECURSIVE TourLegs(_, _, _)
TourLegs(wps, i, from) ==
    IF i > Len(wps) THEN CalculateDistance(from, FieldCenter)
    ELSE CalculateDistance(from, wps[i].position)
            + TourLegs(wps, i + 1, wps[i].position)

TourLength(wps) == TourLegs(wps, 1, FieldCenter)

\* C13 as stated: totalDistance of generateSprayPath equals the sum of the
\* distances launch point -> first waypoint, waypoint -> next waypoint, last
\* waypoint -> launch point.
C13_Original_TotalIsTourLength ==
    (Called("generateSprayPath") /\ result.pathExists) =>
        result.totalDistance = TourLength(result.waypoints)

\* C13 amended: totalDistance is that sum rounded to one decimal of a metre
\* (a multiple of 10 cm at most 5 cm away from the sum).
C13_TotalIsRoundedTourLength ==
    (Called("generateSprayPath") /\ result.pathExists) =>
        /\ result.totalDistance % 10 = 0
        /\ result.totalDistance - TourLength(result.waypoints) \in -4..5

C13_Witness ==
    /\ Called("generateSprayPath")
    /\ result.pathExists
    /\ Len(result.waypoints) >= 4
    /\ result.totalDistance # TourLength(result.waypoints)

-----------------------------------------------------------------------------
(* Claims about the grid *)

\* positions of the cells of a grid that hold at least one detection id
CellsWithDetections(g) ==
    { p \in GridPositions(g) : g.cells[p[1]][p[2]].detections # <<>> }

\* C14: in the grid built by mapDetectionsToGrid a cell is infected exactly
\* when it stores at least one detection id, calculateGridStats counts exactly
\* those cells as infected, and infectedCount + healthyCount = totalCells.
C14_InfectedIffDetectionStored ==
    (Called("calculateGridStats") /\ call.ref > 0) =>
        /\ \A p \in GridPositions(CalledGrid) :
              CalledGrid.cells[p[1]][p[2]].infected <=> p \in CellsWithDetections(CalledGrid)
        /\ result.infectedCount = Cardinality(CellsWithDetections(CalledGrid))
        /\ result.infectedCount + result.healthyCount = result.totalCells

C14_Witness ==
    /\ Called("calculateGridStats")
    /\ call.ref > 0
    /\ result.infectedCount = 2
    /\ \E p \in GridPositions(CalledGrid) :
          Len(CalledGrid.cells[p[1]][p[2]].detections) = 2

\* the points of the field rectangle on a lattice of 0.0001 degrees
FieldPoints ==
    { [lat |-> FieldCenter.lat - FieldLatDelta \div 2 + 100 * i,
       lng |-> FieldCenter.lng - FieldLngDelta \div 2 + 100 * j] :
        i \in 0..(FieldLatDelta \div 100), j \in 0..(FieldLngDelta \div 100) }

InteriorsOverlap(a, b) ==
    /\ a.bounds.west < b.bounds.east /\ b.bounds.west < a.bounds.east
    /\ a.bounds.south < b.bounds.north /\ b.bounds.south < a.bounds.north

CellArea(cell) ==
    (cell.bounds.north - cell.bounds.south) * (cell.bounds.east - cell.bounds.west)

RECURSIVE SumOfAreas(_, _)
SumOfAreas(cells, i) ==
    IF i > Len(cells) THEN 0 ELSE CellArea(cells[i]) + SumOfAreas(cells, i + 1)

RowAreas(g) == [r \in 1..Len(g.cells) |-> SumOfAreas(g.cells[r], 1)]

RECURSIVE SumFrom(_, _)
SumFrom(s, i) == IF i > Len(s) THEN 0 ELSE s[i] + SumFrom(s, i + 1)

CellsPartitionField(g) ==
    LET cellAt(p) == g.cells[p[1]][p[2]]
    IN  \* no gaps
        /\ \A point \in FieldPoints :
              \E p \in GridPositions(g) : IsPointInCell(point, cellAt(p))
        \* no overlap of interiors
        /\ \A p, q \in GridPositions(g) :
              p # q => ~InteriorsOverlap(cellAt(p), cellAt(q))
        \* adjacent cells share their common edge
        /\ \A p \in GridPositions(g) :
              /\ p[1] < GridRows =>
                    cellAt(p).bounds.south = cellAt(<<p[1] + 1, p[2]>>).bounds.north
              /\ p[2] < GridCols =>
                    cellAt(p).bounds.east = cellAt(<<p[1], p[2] + 1>>).bounds.west
        \* row 0 is the northern edge
        /\ \A c \in 1..GridCols : g.cells[1][c].bounds.north = GetFieldBounds.north
        \* the areas add up
        /\ SumFrom(RowAreas(g), 1) =
              (GetFieldBounds.north - GetFieldBounds.south)
                  * (GetFieldBounds.east - GetFieldBounds.west)

\* C15: the cells built by createFieldGrid partition the field rectangle: no
\* gaps, no overlapping interiors, adjacent cells share exactly their common
\* edge, row 0 lies on the northern edge, the areas add up to the field area.
C15_CellsPartitionField ==
    Called("mapDetectionsToGrid") => CellsPartitionField(grids[result.ref])

\* C16: calculateGridStats on a grid with zero cells returns percentages that
\* are not NaN.
C16_NoNaNOnZeroCells ==
    (Called("calculateGridStats") /\ result.totalCells = 0) =>
        /\ result.infectedPercentage # NaN
        /\ result.healthyPercentage # NaN

\* C17: no call changes a grid that already exists: mapDetectionsToGrid only
\* adds a new grid, every other function leaves all grids as they are, and
\* none of them touches the debouncer.
C17_CallsLeaveGridsUnchanged ==
    [][ /\ \A ref \in DOMAIN grids : ref \in DOMAIN grids' /\ grids'[ref] = grids[ref]
        /\ (call'.name # "mapDetectionsToGrid") => (grids' = grids)
        /\ (call'.name = "mapDetectionsToGrid") =>
               /\ Len(grids') = Len(grids) + 1
               /\ result'.ref = Len(grids')
        /\ recentAlerts' = recentAlerts
      ]_vars

\* a second mapDetectionsToGrid call with detections has been made while an
\* infected grid from an earlier call is still held
C17_Witness ==
    /\ Called("mapDetectionsToGrid")
    /\ result.ref = 2
    /\ InfectedIds(grids[1]) # {}
    /\ InfectedIds(grids[2]) # {}
    /\ InfectedIds(grids[1]) # InfectedIds(grids[2])

-----------------------------------------------------------------------------
(* Claims about the visiting order and the two planners *)

InfectedPositions(g) == { p \in GridPositions(g) : g.cells[p[1]][p[2]].infected }

\* the position in the grid of the cell a waypoint names
PositionOf(g, wp) == CHOOSE p \in GridPositions(g) : g.cells[p[1]][p[2]].id = wp.cellId

\* the i-th waypoint follows the greedy rule: it is an infected cell not yet
\* visited, none of those is nearer to the previous position, and of those
\* equally near it is the first in row-major order
GreedyStep(g, wps, i) ==
    LET prev      == IF i = 1 THEN FieldCenter ELSE wps[i - 1].position
        visited   == { PositionOf(g, wps[j]) : j \in 1..(i - 1) }
        remaining == InfectedPositions(g) \ visited
        here      == PositionOf(g, wps[i])
        dist(p)   == CalculateDistance(prev, g.cells[p[1]][p[2]].center)
    IN  /\ here \in remaining
        /\ \A p \in remaining : dist(here) <= dist(p)
        /\ \A p \in remaining : dist(p) = dist(here) => RowMajorBefore(here, p)

\* C18: generateSprayPath follows the greedy nearest-neighbour rule from the
\* launch point, and of several equidistant cells it takes the first in
\* row-major grid order.
C18_GreedyNearestNeighbour ==
    (Called("generateSprayPath") /\ result.pathExists) =>
        \A i \in 1..Len(result.waypoints) :
            GreedyStep(CalledGrid, result.waypoints, i)

\* a path whose first step had several cells at the smallest distance
C18_Witness ==
    /\ Called("generateSprayPath")
    /\ result.pathExists
    /\ Len(result.waypoints) >= 4
    /\ Cardinality({ p \in InfectedPositions(CalledGrid) :
            CalculateDistance(FieldCenter, CalledGrid.cells[p[1]][p[2]].center)
              = CalculateDistance(FieldCenter, result.waypoints[1].position) }) >= 2

WaypointIds(path) == { path.waypoints[i].cellId : i \in 1..Len(path.waypoints) }

\* the waypoints are listed in row-major grid order
InRowMajorOrder(g, wps) ==
    \A i, j \in 1..Len(wps) :
        i < j => /\ PositionOf(g, wps[i]) # PositionOf(g, wps[j])
                 /\ RowMajorBefore(PositionOf(g, wps[i]), PositionOf(g, wps[j]))

\* both planners agree on pathExists and on the set of waypoint cells, and
\* the sweep lists them in row-major order
SamePlan(g, sweep, spray) ==
    /\ sweep.pathExists = spray.pathExists
    /\ WaypointIds(sweep) = WaypointIds(spray)
    /\ InRowMajorOrder(g, sweep.waypoints)

\* Math.ceil(metres / 5 + 3 * count), the distance given in centimetres
CeilTime(cm, count) ==
    LET whole == cm \div 500
    IN  (IF whole * 500 = cm THEN whole ELSE whole + 1) + 3 * count

\* C19 as stated: generateSweepPath and generateSprayPath return the same
\* pathExists and the same set of waypoint cells, the sweep in row-major
\* order; each returns as totalDistance the closed tour length of its own
\* order and as estimatedTime ceil(totalDistance / 5 + 3 x waypoint count).
C19_Original_InterchangeablePlanners ==
    Called("generateSweepPath") =>
        LET spray == GenerateSprayPathOf(CalledGrid)
        IN  /\ SamePlan(CalledGrid, result, spray)
            /\ result.totalDistance = TourLength(result.waypoints)
            /\ spray.totalDistance = TourLength(spray.waypoints)
            /\ result.estimatedTime =
                  CeilTime(result.totalDistance, Len(result.waypoints))
            /\ spray.estimatedTime =
                  CeilTime(spray.totalDistance, Len(spray.waypoints))

\* the accounting both planners really share: totalDistance is the closed
\* tour length rounded to one decimal of a metre, estimatedTime comes from
\* the length before rounding
RoundedAccounting(path) ==
    /\ path.totalDistance % 10 = 0
    /\ path.totalDistance - TourLength(path.waypoints) \in -4..5
    /\ path.estimatedTime = CeilTime(TourLength(path.waypoints), Len(path.waypoints))

\* C19 amended: as stated, except that totalDistance is the closed tour length
\* rounded to one decimal and estimatedTime is computed from the tour length
\* before rounding.
C19_InterchangeablePlannersRounded ==
    Called("generateSweepPath") =>
        LET spray == GenerateSprayPathOf(CalledGrid)
        IN  /\ SamePlan(CalledGrid, result, spray)
            /\ RoundedAccounting(result)
            /\ RoundedAccounting(spray)

\* a sweep whose order differs from the nearest-neighbour order
C19_Witness ==
    /\ Called("generateSweepPath")
    /\ result.pathExists
    /\ Len(result.waypoints) >= 4
    /\ result.waypoints # GenerateSprayPathOf(CalledGrid).waypoints
    /\ result.totalDistance # GenerateSprayPathOf(CalledGrid).totalDistance

-----------------------------------------------------------------------------
(* Claim about where detections are stored *)

HasGps(detection) == Has(detection, "gps") /\ detection.gps # Null

InField(point) ==
    /\ Exact(point.lat) >= GetFieldBounds.south
    /\ Exact(point.lat) <= GetFieldBounds.north
    /\ Exact(point.lng) >= GetFieldBounds.west
    /\ Exact(point.lng) <= GetFieldBounds.east

\* the cells that store a detection id, each counted as often as it stores it
StoredAt(g, id) ==
    { <<p, i>> \in GridPositions(g) \X (1..GridRows * GridCols) :
        /\ i <= Len(g.cells[p[1]][p[2]].detections)
        /\ g.cells[p[1]][p[2]].detections[i] = id }

Containing(g, point) ==
    { p \in GridPositions(g) : IsPointInCell(point, g.cells[p[1]][p[2]]) }

\* C20: mapDetectionsToGrid stores each detection id in at most one cell; a
\* detection whose GPS point lies in the field is stored in exactly the first
\* cell in row-major order whose inclusive bounds contain the point; one
\* without GPS or outside the field is stored nowhere; no error is raised.
C20_StoredInFirstContainingCell ==
    Called("mapDetectionsToGrid") =>
        LET g == grids[result.ref]
        IN  \A k \in 1..Len(call.detections) :
              LET detection == call.detections[k]
                  stored    == StoredAt(g, detection.id)
              IN  /\ Cardinality(stored) <= 1
                  /\ (HasGps(detection) /\ InField(detection.gps)) =>
                        \E p \in Containing(g, detection.gps) :
                            /\ \E i \in 1..Len(g.cells[p[1]][p[2]].detections) :
                                  stored = { <<p, i>> }
                            /\ \A q \in Containing(g, detection.gps) :
                                  RowMajorBefore(p, q)
                  /\ ~(HasGps(detection) /\ InField(detection.gps)) => stored = {}

-----------------------------------------------------------------------------
(* Claim about the order of the detections *)

MaxPermuted == 4    \* lists up to this length are checked in every order

\* the orders in which a list of n detections is handed over again: every
\* permutation of a list of at most MaxPermuted detections; of a longer list
\* every exchange of two detections, the reversal and every rotation
Reorderings(n) ==
    IF n <= MaxPermuted
    THEN { f \in [1..n -> 1..n] : \A i, j \in 1..n : f[i] = f[j] => i = j }
    ELSE { [k \in 1..n |-> IF k = i THEN j ELSE IF k = j THEN i ELSE k] :
             i \in 1..n, j \in 1..n }
         \cup { [k \in 1..n |-> n + 1 - k] }
         \cup { [k \in 1..n |-> ((k + r - 1) % n) + 1] : r \in 1..n }

Reordered(dets, f) == [k \in 1..Len(dets) |-> dets[f[k]]]

\* number of detections stored in each cell
DetectionsPerCell(g) ==
    [p \in GridPositions(g) |-> Len(g.cells[p[1]][p[2]].detections)]

\* C21: the grid computation is independent of the order of the detections:
\* mapDetectionsToGrid of a reordered list gives the same set of infected
\* cells and the same number of detections per cell, hence the same GridStats
\* and the same spray-path waypoints.
C21_OrderIndependent ==
    Called("mapDetectionsToGrid") =>
        LET g == grids[result.ref]
        IN  \A f \in Reorderings(Len(call.detections)) :
              LET h == MapDetectionsToGridOf(Reordered(call.detections, f))
              IN  /\ InfectedIds(h) = InfectedIds(g)
                  /\ DetectionsPerCell(h) = DetectionsPerCell(g)
                  /\ CalculateGridStatsOf(h) = CalculateGridStatsOf(g)
                  /\ GenerateSprayPathOf(h).waypoints = GenerateSprayPathOf(g).waypoints

\* a list with two detections in one cell, given in an order in which they
\* are not next to each other, was mapped
C21_Witness ==
    /\ Called("mapDetectionsToGrid")
    /\ Len(call.detections) >= 3
    /\ \E p \in GridPositions(grids[result.ref]) :
          LET stored == grids[result.ref].cells[p[1]][p[2]].detections
          IN  /\ Len(stored) = 2
              /\ stored[2] - stored[1] >= 2
    /\ Len(GenerateSprayPathOf(grids[result.ref]).waypoints) >= 2

-----------------------------------------------------------------------------
(* Claim about the infected zones *)

\* cells that share an edge
Adjacent(p, q) ==
    \/ p[1] = q[1] /\ (p[2] = q[2] + 1 \/ q[2] = p[2] + 1)
    \/ p[2] = q[2] /\ (p[1] = q[1] + 1 \/ q[1] = p[1] + 1)

\* cells that touch at a corner only
Diagonal(p, q) ==
    /\ p[1] = q[1] + 1 \/ q[1] = p[1] + 1
    /\ p[2] = q[2] + 1 \/ q[2] = p[2] + 1

\* the infected cells joined to the cells of S by chains of adjacent infected
\* cells
RECURSIVE JoinedTo(_, _)
JoinedTo(S, infected) ==
    LET T == S \cup { q \in infected : \E p \in S : Adjacent(p, q) }
    IN  IF T = S THEN S ELSE JoinedTo(T, infected)

\* the 4-connected components of a set of positions
Components(infected) == { JoinedTo({p}, infected) : p \in infected }

\* the positions of the cells of a zone
ZonePositions(zone) == { <<zone[i].row + 1, zone[i].col + 1>> : i \in 1..Len(zone) }

LargestOf(sizes) == IF sizes = {} THEN 0 ELSE CHOOSE n \in sizes : \A m \in sizes : m <= n

\* C22: identifyInfectedZones returns the 4-connected components of the
\* infected cells: every infected cell is in exactly one zone, no healthy cell
\* is in a zone, two infected cells are in one zone exactly when a chain of
\* N/S/E/W-adjacent infected cells joins them, and getZoneStatistics reports
\* the zone count, the number of infected cells and the largest zone size of
\* that partition.
C22_ZonesAreFourConnectedComponents ==
    LET infected == InfectedPositions(CalledGrid)
    IN  /\ (Called("identifyInfectedZones") /\ call.ref > 0) =>
              LET zones == result.zones
              IN  /\ \A p \in infected :
                        Cardinality({ <<z, i>> \in (1..Len(zones)) \X (1..Cardinality(infected)) :
                                        /\ i <= Len(zones[z])
                                        /\ <<zones[z][i].row + 1, zones[z][i].col + 1>> = p }) = 1
                  /\ \A z \in 1..Len(zones) : ZonePositions(zones[z]) \subseteq infected
                  /\ { ZonePositions(zones[z]) : z \in 1..Len(zones) } = Components(infected)
        /\ Called("getZoneStatistics") =>
              /\ Len(call.zones) = Cardinality(Components(infected))
              /\ result.zoneCount = Cardinality(Components(infected))
              /\ result.totalInfectedCells = Cardinality(infected)
              /\ result.largestZone =
                    LargestOf({ Cardinality(c) : c \in Components(infected) })

\* zones were identified on a grid with two infected cells side by side, in
\* one zone, and two infected cells touching at a corner, in two zones
C22_Witness ==
    /\ Called("identifyInfectedZones")
    /\ call.ref > 0
    /\ Len(result.zones) = 5
    /\ \E p, q \in InfectedPositions(CalledGrid) :
          /\ Diagonal(p, q)
          /\ ~\E z \in 1..Len(result.zones) : {p, q} \subseteq ZonePositions(result.zones[z])
    /\ \E z \in 1..Len(result.zones) : Len(result.zones[z]) = 2

-----------------------------------------------------------------------------
(* Claims about the growth-rate estimate *)

\* the pass went through extractSignals and evaluateAlerts
ExtractedAndEvaluated ==
    /\ entry \in {"mapDetectionsToGrid", "extractSignals"}
    /\ pc \in {"resolveConflicts", "done"}

\* C24: the infection growth rate of the snapshot is a function of the
\* snapshot's infection percentage only: the percentage x 0.15 above 15,
\* x 0.10 above 5 and up to 15, and 0 otherwise; a second call of
\* extractSignals with the same inputs gives the same growth rate.
C24_GrowthRateOfInfectionPercentage ==
    SignalsExtracted =>
        /\ signals.infectionPercentage > M(15) =>
              signals.infectionGrowthRate = signals.infectionPercentage * 150
        /\ (signals.infectionPercentage > M(5) /\ signals.infectionPercentage <= M(15)) =>
              signals.infectionGrowthRate = signals.infectionPercentage * 100
        /\ signals.infectionPercentage <= M(5) => signals.infectionGrowthRate = 0
        /\ ExtractSignalsOf(detections, gridStats, economicImpact, fusionResults,
                            sensorData).infectionGrowthRate = signals.infectionGrowthRate

\* a snapshot at exactly 15 % was extracted: the lower factor applies
C24_Witness ==
    /\ SignalsExtracted
    /\ signals.infectionPercentage = M(15)
    /\ signals.infectionGrowthRate = M(1500)

\* C26: for every snapshot produced by extractSignals, Rapid Infection Growth
\* (growth rate > 2.0) triggers exactly when the infection percentage is above
\* 15; after resolveConflicts a Moderate Infection Warning is therefore only
\* emitted for infection percentages from 10 to 15.
C26_ModerateWarningOnlyUpToFifteen ==
    /\ ExtractedAndEvaluated =>
          ("RULE_008" \in RuleIdsIn(alerts) <=> signals.infectionPercentage > M(15))
    /\ (ExtractedAndEvaluated /\ AfterResolve /\ "RULE_002" \in RuleIdsIn(resolved)) =>
          /\ signals.infectionPercentage >= M(10)
          /\ signals.infectionPercentage <= M(15)

\* at 25 % the Moderate Infection Warning triggered and was replaced by Rapid
\* Disease Spread
C26_Witness ==
    /\ ExtractedAndEvaluated
    /\ AfterResolve
    /\ signals.infectionPercentage = M(25)
    /\ "RULE_002" \in RuleIdsIn(alerts)
    /\ "RULE_002" \notin RuleIdsIn(resolved)
    /\ "RULE_008" \in RuleIdsIn(resolved)

-----------------------------------------------------------------------------
(* C23 *)

\* the fusion signals a batch of one result gives
FusionTripleOf(fusionResult) == FusionSignals(Arr(<<fusionResult>>))

\* the fusion signals of a signals object
FusionTripleIn(s) ==
    [fusionSeverity |-> s.fusionSeverity, fusionDiagnosis |-> s.fusionDiagnosis,
     fusionConfidence |-> s.fusionConfidence]

\* C23 as stated: in the alert panel, where detections arrive newest first and
\* the fusion results are computed in that order, the signals of an
\* evaluation cycle carry the severity, diagnosis and confidence of the fusion
\* result of the newest detection.
C23_SignalsCarryNewestDiagnosis ==
    (cycle.ran /\ Len(cycle.fusionResults.items) > 0) =>
        /\ cycle.detections[1].id = Len(cycle.detections)
        /\ FusionTripleIn(cycle.signals) = FusionTripleOf(cycle.fusionResults.items[1])

-----------------------------------------------------------------------------
(* C25 *)

\* C25 as stated: when an evaluation cycle is given the object
\* calculateEconomicImpact produces for a grid with infected cells, the
\* signals' roiRatio and potentialLoss carry the per-application ROI ratio and
\* the untreated loss of that object.
C25_SignalsCarryEconomicImpact ==
    (cycle.ran /\ cycle.economicImpact # Null /\ cycle.economicImpact.hasInfection) =>
        /\ cycle.signals.roiRatio =
              cycle.economicImpact.roi.perApplication.roiMultiplier
        /\ cycle.signals.potentialLoss =
              cycle.economicImpact.financialData.financialLossUntreated

-----------------------------------------------------------------------------
(* C27 *)

\* the cycle runs more than the debounce window after key k was emitted last
WindowOver(k) ==
    /\ k \in DOMAIN cycle.before
    /\ cycle.at - cycle.before[k].at > windowMs

\* no alert of the cycle's list was emitted within the window before it
EmittedOnlyAfterWindow ==
    \A k \in Keys(cycle.emitted) : k \in DOMAIN cycle.before => WindowOver(k)

-----------------------------------------------------------------------------
(* C28 *)

\* the alerts of a list as a set
AlertsIn(list) == { list[i] : i \in 1..Len(list) }

\* the debouncer's entry of key k is as it was before the cycle
EntryUntouched(k) ==
    /\ (k \in DOMAIN recentAlerts) = (k \in DOMAIN cycle.mapBefore)
    /\ k \in DOMAIN recentAlerts => recentAlerts[k] = cycle.mapBefore[k]

\* C28: in every evaluation cycle only the survivors of resolveConflicts
\* reach shouldShowAlert: an alert that resolveConflicts discarded leaves the
\* debouncer's entry of its key as it was, every emitted alert is a survivor,
\* and when the survivor of a category is suppressed no alert of that
\* category is emitted in the cycle.
C28_ResolutionPrecedesDebouncing ==
    cycle.ran =>
        /\ \A k \in Keys(cycle.triggered) \ Keys(cycle.resolved) : EntryUntouched(k)
        /\ AlertsIn(cycle.emitted) \subseteq AlertsIn(cycle.resolved)
        /\ \A a \in AlertsIn(cycle.resolved) \ AlertsIn(cycle.emitted) :
              \A b \in AlertsIn(cycle.emitted) : CategoryOf(b) # CategoryOf(a)

\* a cycle in which the survivor of a category is suppressed while a discarded
\* alert of that category has no debouncer entry
C28_Witness ==
    /\ cycle.ran
    /\ \E a \in AlertsIn(cycle.resolved) \ AlertsIn(cycle.emitted) :
          \E b \in AlertsIn(cycle.triggered) \ AlertsIn(cycle.resolved) :
              /\ CategoryOf(b) = CategoryOf(a)
              /\ AlertKey(b) \notin DOMAIN recentAlerts

-----------------------------------------------------------------------------
(* C29 *)

\* the loop of generateSprayPath on the grid of the call, given one iteration
\* more than the grid has infected cells
CalledSprayLoop ==
    SprayLoopStates(SprayLoopStart(CalledGrid), Len(GetInfectedCells(CalledGrid)) + 1)

\* C29: generateSprayPath terminates for every grid: each iteration of its
\* nearest-neighbour loop removes exactly one cell from the unvisited set, so
\* the loop ends after as many iterations as the grid has infected cells, with
\* the path the call returns.
C29_SprayLoopTerminates ==
    Called("generateSprayPath") =>
        LET n      == Len(GetInfectedCells(CalledGrid))
            states == CalledSprayLoop
        IN  /\ Len(states) = n + 1
            /\ \A i \in 1..Len(states) : Len(states[i].unvisited) = n - (i - 1)
            /\ \A i \in 1..(Len(states) - 1) :
                  \E k \in 1..Len(states[i].unvisited) :
                      states[i + 1].unvisited = Without(states[i].unvisited, k)
            /\ result.waypoints = states[Len(states)].path

\* a call on a grid with at least three infected cells
C29_Witness ==
    /\ Called("generateSprayPath")
    /\ Len(GetInfectedCells(CalledGrid)) >= 3
    /\ Len(CalledSprayLoop) = Len(result.waypoints) + 1

-----------------------------------------------------------------------------
(* C30 *)

\* neither a delivery nor a render caused by one is due
Quiescent ==
    /\ ~pending.deliver
    /\ ~pending.render

\* C30 as stated: after the panel's alert list has become a non-empty list
\* and the effects of its inputs have run, the exchange between the panel and
\* the dashboard comes to rest unless the inputs change again: at some point
\* no delivery and no render caused by a delivery is due.
C30_ExchangeQuiesces ==
    (cycle.ran /\ Len(panelAlerts) > 0 /\ Settled) ~> (Quiescent \/ ~Settled)

====
